---- MODULE Spec2Model ----
(***************************************************************************)
(* A model of the UaiSo Python parser (src/Python/PyParser.cpp).           *)
(*                                                                         *)
(* The parser is a recursive-descent translator that pulls tokens from a   *)
(* lexer, keeps one token of lookahead (ahead_) and the location of the    *)
(* token it left behind (lastLoc_), reports diagnostics to a parsing       *)
(* context and hands the finished program to it.  Every parse function of  *)
(* the source is an operator here, of the same name, that takes the        *)
(* parser's mutable state as a record and returns the state it leaves      *)
(* with the AST it built.  The top-level loop of PyParser::parse is the    *)
(* state machine: one action per iteration.                                *)
(*                                                                         *)
(* Tokens are the strings "TK_..." of the Token enumeration.  A source     *)
(* location is the index of a token in the lexer's stream (0: the default  *)
(* SourceLoc, before anything was lexed).                                  *)
(*                                                                         *)
(* AST nodes are records [k, loc, c]: the node's kind, the locations the   *)
(* parser stamps on it (in the order the comments give) and its children   *)
(* in slot order.  A list slot is a node of kind "List"; a null pointer    *)
(* is Null, a null list is NoList.                                         *)
(***************************************************************************)
EXTENDS Integers, Sequences, FiniteSets, TLC

VARIABLES
    tokens,       \* the token stream the lexer produces, EOP excluded
    lexPos,       \* lexer: number of lex() calls answered so far
    ahead_,       \* PyParser::ahead_
    lastLoc_,     \* PyParser::lastLoc_
    diags,        \* ParsingContext: the diagnostics reported, in order
    astRoot,      \* ParsingContext: the root handed over by takeAst
    takeAsts,     \* ParsingContext: number of takeAst calls
    stmts,        \* parse(): the local list of accepted statements
    pc,           \* where parse() is: "idle", "loop", "done", "aborted"
    ret,          \* value returned by the last completed parse()
    calls,        \* number of parse() calls made on this parser object
    first,        \* what the first parse() call returned and handed over
    ghost,        \* bookkeeping of the run: token counts, suites, progress
    prim,         \* the last token primitive called directly, and its effect
    buff_,        \* Lexer: the characters of [buff_, eof_)
    curr_,        \* Lexer::curr_, as an offset from buff_
    ch,           \* the character the lexer's caller holds
    lexDiags,     \* the diagnostics the lexer reported, in order
    lexOp,        \* the last lexer operation called, and its effect
    made,         \* DFactory: the instances made so far, in order
    facOp         \* the last factory member called, and its result

parserVars == <<tokens, lexPos, ahead_, lastLoc_, diags, astRoot, takeAsts,
                stmts, pc, ret, calls, first, ghost>>

lexVars == <<buff_, curr_, ch, lexDiags, lexOp>>

facVars == <<made, facOp>>

vars == <<parserVars, prim, lexVars, facVars>>

-----------------------------------------------------------------------------
(* AST nodes *)

N(k, locs, cs) == [k |-> k, loc |-> locs, c |-> cs]

Null == N("Null", <<>>, <<>>)

NoList == N("List", <<>>, <<>>)

ListOf(items) == N("List", <<>>, items)

\* ListT::create(item): a list of one element, whatever the element is.
create(item) == ListOf(<<item>>)

\* addToList(list, item): the list is created by the first element added;
\* a null item adds nothing (callers test the list for null afterwards).
addToList(list, item) ==
    IF item = Null THEN list ELSE ListOf(Append(list.c, item))

\* mergeList(list, other): appends the elements of other.
mergeList(list, other) == ListOf(list.c \o other.c)

-----------------------------------------------------------------------------
(* The lexer as the parser sees it, and the parser's token primitives *)

\* Lexer::lex(): the next token of the stream, TK_EOP from its end on.
lex(pos) == IF pos + 1 <= Len(tokens) THEN tokens[pos + 1] ELSE "TK_EOP"

\* Lexer::tokenLoc(): the location of the token lex() returned last.
tokenLoc(pos) == pos

\* The ghost counters a consumed token updates.
Count(g, tk) ==
    [g EXCEPT !.ind = IF tk = "TK_INDENT" THEN @ + 1 ELSE @,
              !.ded = IF tk = "TK_DEDENT" THEN @ + 1 ELSE @]

\* consumeToken() without the test for the end of the program.
consumeTokenAlways(p) ==
    [p EXCEPT !.last = tokenLoc(p.pos),
              !.ahead = lex(p.pos),
              !.pos = p.pos + 1,
              !.g = Count(p.g, p.ahead)]

consumeToken(p) ==
    IF p.ahead = "TK_EOP"
    THEN p
    ELSE [p EXCEPT !.last = tokenLoc(p.pos),
                   !.ahead = lex(p.pos),
                   !.pos = p.pos + 1,
                   !.g = Count(p.g, p.ahead)]

maybeConsume(p, tk) ==
    IF p.ahead = tk
    THEN [p |-> consumeToken(p), b |-> TRUE]
    ELSE [p |-> p, b |-> FALSE]

\* ParsingContext::trackReport(kind, loc)
trackReport(p, kind, loc) ==
    [p EXCEPT !.diags = Append(@, [kind |-> kind, loc |-> loc])]

\* failMatch() adding its report at the front of the context's list.
failMatchFront(p, consume) ==
    LET q == IF consume THEN consumeToken(p) ELSE p
    IN  [q EXCEPT !.diags = <<[kind |-> "UnexpectedToken", loc |-> q.last]>>
                            \o @]

failMatch(p, consume) ==
    LET q == IF consume THEN consumeToken(p) ELSE p
    IN  trackReport(q, "UnexpectedToken", q.last)

\* match() moving on only when the token matches.
matchStay(p, tk) ==
    IF p.ahead # tk
    THEN [p |-> failMatch(p, FALSE), b |-> FALSE]
    ELSE [p |-> consumeToken(p), b |-> TRUE]

match(p, tk) ==
    LET actual == p.ahead
        q == consumeToken(p)
    IN  IF actual # tk
        THEN [p |-> failMatch(q, FALSE), b |-> FALSE]
        ELSE [p |-> q, b |-> TRUE]

\* skipTo() consuming the token it was to stop at.
RECURSIVE skipToPast(_, _)
skipToPast(p, tk) ==
    IF p.ahead = "TK_EOP"
    THEN p
    ELSE IF p.ahead = tk
         THEN consumeToken(p)
         ELSE skipToPast(consumeToken(p), tk)

RECURSIVE skipTo(_, _)
skipTo(p, tk) ==
    IF p.ahead = tk \/ p.ahead = "TK_EOP"
    THEN p
    ELSE LET q == consumeToken(p)
         IN  IF q.pos = p.pos
             THEN [q EXCEPT !.g.stuck = TRUE]
             ELSE skipTo(q, tk)

\* The idiom "if (!match(tk)) skipTo(tk)" of the closing delimiters.
matchOrSkipTo(p, tk) ==
    LET m == match(p, tk)
    IN  IF m.b THEN m.p ELSE skipTo(m.p, tk)

-----------------------------------------------------------------------------
(* Lookahead predicates *)

isAtomAhead(p) ==
    p.ahead \in {"TK_LPAREN", "TK_LBRACKET", "TK_LBRACE", "TK_BACKTICK",
                 "TK_IDENTIFIER", "TK_INTEGER_LITERAL", "TK_FLOAT_LITERAL",
                 "TK_STRING_LITERAL", "TK_NULL_LITERAL", "TK_TRUE_LITERAL",
                 "TK_FALSE_LITERAL"}

isFactorAhead(p) ==
    p.ahead \in {"TK_PLUS", "TK_MINUS", "TK_TILDE"} \/ isAtomAhead(p)

isExprAhead(p) == isFactorAhead(p)

isNonLambdaTestAhead(p) == p.ahead = "TK_NOT" \/ isExprAhead(p)

isTestAhead(p) == p.ahead = "TK_LAMBDA" \/ isNonLambdaTestAhead(p)

isArgAhead(p) == p.ahead \in {"TK_STAR", "TK_STAR_STAR"} \/ isTestAhead(p)

isSubscriptAhead(p) ==
    p.ahead \in {"TK_DOT_DOT_DOT", "TK_COLON"} \/ isTestAhead(p)

isNameAhead(p) == p.ahead = "TK_IDENTIFIER"

\* enum Precedence
Zero == 0
Or == 1
Xor == 2
And == 3
Shift == 4
Term == 5
Factor == 6

\* fetchPrecAhead() with every operator at the lowest level.
fetchPrecAheadFlat(p) ==
    CASE p.ahead = "TK_PIPE" -> [prec |-> Or, k |-> "BitOrExpr"]
      [] p.ahead = "TK_CARET" -> [prec |-> Or, k |-> "BitXorExpr"]
      [] p.ahead = "TK_AMPER" -> [prec |-> Or, k |-> "BitAndExpr"]
      [] p.ahead \in {"TK_LESS_LESS", "TK_GREATER_GREATER"} ->
            [prec |-> Or, k |-> "ShiftExpr"]
      [] p.ahead = "TK_PLUS" -> [prec |-> Or, k |-> "AddExpr"]
      [] p.ahead = "TK_MINUS" -> [prec |-> Or, k |-> "SubExpr"]
      [] p.ahead = "TK_STAR" -> [prec |-> Or, k |-> "MulExpr"]
      [] p.ahead = "TK_SLASH" -> [prec |-> Or, k |-> "DivExpr"]
      [] p.ahead = "TK_SLASH_SLASH" -> [prec |-> Or, k |-> "DivExpr"]
      [] p.ahead = "TK_PERCENT" -> [prec |-> Or, k |-> "ModExpr"]
      [] OTHER -> [prec |-> Zero, k |-> "Null"]

\* fetchPrecAhead(): the precedence of the operator ahead and the kind of
\* the node made for it (Zero and no node when no binary operator is ahead).
fetchPrecAhead(p) ==
    CASE p.ahead = "TK_PIPE" -> [prec |-> Or, k |-> "BitOrExpr"]
      [] p.ahead = "TK_CARET" -> [prec |-> Xor, k |-> "BitXorExpr"]
      [] p.ahead = "TK_AMPER" -> [prec |-> And, k |-> "BitAndExpr"]
      [] p.ahead \in {"TK_LESS_LESS", "TK_GREATER_GREATER"} ->
            [prec |-> Shift, k |-> "ShiftExpr"]
      [] p.ahead = "TK_PLUS" -> [prec |-> Term, k |-> "AddExpr"]
      [] p.ahead = "TK_MINUS" -> [prec |-> Term, k |-> "SubExpr"]
      [] p.ahead = "TK_STAR" -> [prec |-> Factor, k |-> "MulExpr"]
      [] p.ahead = "TK_SLASH" -> [prec |-> Factor, k |-> "DivExpr"]
      [] p.ahead = "TK_SLASH_SLASH" -> [prec |-> Factor, k |-> "DivExpr"]
      [] p.ahead = "TK_PERCENT" -> [prec |-> Factor, k |-> "ModExpr"]
      [] OTHER -> [prec |-> Zero, k |-> "Null"]

-----------------------------------------------------------------------------
(* Results of the parse functions: the parser state left behind, with the  *)
(* AST built (a), a boolean (b) or a list and its trailing-delimiter flag. *)

R(p, a) == [p |-> p, a |-> a]

SetLoc(n, i, v) == [n EXCEPT !.loc[i] = v]

SetC(n, i, v) == [n EXCEPT !.c[i] = v]

\* The null dereference of "for (auto x : *list)" on a null list, and of
\* x->kind() on a null element: undefined behaviour, recorded in the run.
derefList(p, list) ==
    IF list = NoList \/ \E i \in 1..Len(list.c) : list.c[i] = Null
    THEN [p EXCEPT !.g.ub = TRUE]
    ELSE p

RECURSIVE parseStmt(_), parseSimpleStmt(_), parseSmallStmt(_),
          parseSimpleStmtLoop(_), parseExprStmt(_), parseExprStmtLoop(_),
          parseSuite(_), parseSuiteLoop(_, _, _), parseIfElseIfStmt(_),
          parseTryStmt(_), parseTryStmtLoop(_, _, _), parseWithItem(_),
          parseVarArgsList(_, _), parseVarArgsListLoop(_, _, _),
          parseFuncDef(_), parseClassDef(_), parseDecorated(_),
          parseDecoratedLoop(_), parseYieldExpr(_), parseImportLoop(_, _),
          parseSubImportsLoop(_, _, _), parseGlobalLoop(_, _), parseIfStmt(_),
          parseWhileStmt(_), parseForStmt(_), parseWithStmt(_),
          parseFromDots(_),
          parseTest(_), parseOldTest(_), parseOrTest(_), parseOrTestLoop(_),
          parseAndTest(_), parseAndTestLoop(_), parseNotTest(_),
          parseComparison(_), parseComparisonLoop(_), parseExpr(_),
          parseBinaryExpr(_, _), parseBinaryExprLoop(_, _),
          parseFactor(_), parsePower(_), parsePowerLoop(_), parseAtom(_),
          parseArg(_), parseArgList(_), parseArgListStar(_, _),
          parseArgListTail(_, _, _), parseSubscript(_),
          parseCompFor(_, _), parseListFor(_, _), parseListOrCompIf(_, _, _),
          completeListCompre(_, _, _), parseDictOrSetMaker(_),
          parseDictLoop(_, _), parseListMaker(_), parseWrappedOrTuple(_),
          parseLambdaCore(_, _), parseStrLit(_), completeSubrangeExpr(_, _),
          completeParam(_, _), completeUnaryExpr(_, _, _),
          completeBinaryExpr(_, _, _, _), completeAssignExpr(_, _, _),
          parseList(_, _, _, _, _), parseListLoop(_, _, _, _, _, _),
          invoke(_, _)

\* parseName(): a SimpleName [nameLoc] only when an identifier was matched.
parseName(p) ==
    LET m == match(p, "TK_IDENTIFIER")
    IN  IF m.b THEN R(m.p, N("SimpleName", <<m.p.last>>, <<>>))
        ELSE R(m.p, Null)

\* A call through a pointer to a lookahead predicate (this->*checkAhead)().
check(f, p) ==
    CASE f = "isTestAhead" -> isTestAhead(p)
      [] f = "isExprAhead" -> isExprAhead(p)
      [] f = "isSubscriptAhead" -> isSubscriptAhead(p)
      [] f = "isNameAhead" -> isNameAhead(p)

\* parseList<ListT>(tk, checkAhead, parseFunc, trailingOK): the while loop;
\* item is what the last call of parseFunc returned, list what was
\* collected before it.
parseListLoop(item, list, tk, checkAhead, parseFunc, trailingOK) ==
    IF item.p.ahead # tk
    THEN [p |-> item.p, a |-> addToList(list, item.a), t |-> FALSE]
    ELSE IF trailingOK /\ ~check(checkAhead, consumeToken(item.p))
         THEN [p |-> consumeToken(item.p), a |-> addToList(list, item.a),
               t |-> TRUE]
         ELSE parseListLoop(invoke(parseFunc, consumeToken(item.p)),
                            addToList(list, item.a), tk, checkAhead,
                            parseFunc, trailingOK)

parseList(p, tk, checkAhead, parseFunc, trailingOK) ==
    parseListLoop(invoke(parseFunc, p), NoList, tk, checkAhead, parseFunc,
                  trailingOK)

parseExprList(p) == parseList(p, "TK_COMMA", "isExprAhead", "parseExpr", TRUE)

parseTestList(p) == parseList(p, "TK_COMMA", "isTestAhead", "parseTest", TRUE)

parseTestList1(p) ==
    parseList(p, "TK_COMMA", "isTestAhead", "parseTest", FALSE)

parseTestListSafe(p) ==
    parseList(p, "TK_COMMA", "isTestAhead", "parseOldTest", TRUE)

parseSubscriptList(p) ==
    parseList(p, "TK_COMMA", "isSubscriptAhead", "parseSubscript", TRUE)

\* parseDottedName(): NestedName, child: the list of simple names.
parseDottedName(p) ==
    LET l == parseList(p, "TK_DOT", "isNameAhead", "parseName", FALSE)
    IN  R(l.p, N("NestedName", <<>>, <<l.a>>))

\* completeUnaryExpr<T>(parseFunc): T [oprLoc] (expr)
completeUnaryExpr(kind, p, parseFunc) ==
    LET r == invoke(parseFunc, p)
    IN  R(r.p, N(kind, <<p.last>>, <<r.a>>))

\* completeBinaryExpr<T>(expr, parseFunc): T [oprLoc] (expr1, expr2)
completeBinaryExpr(kind, p, expr, parseFunc) ==
    LET r == invoke(parseFunc, p)
    IN  R(r.p, N(kind, <<p.last>>, <<expr, r.a>>))

\* completeAssignExpr(expr, parseFunc): AssignExpr [oprLoc] (expr1s, expr2s)
completeAssignExpr(p, expr, parseFunc) ==
    LET r == invoke(parseFunc, p)
    IN  R(r.p, N("AssignExpr", <<p.last>>, <<create(expr), create(r.a)>>))

\* parseTest(), from "if (maybeConsume(TK_IF))" on.
parseTestCond(orTest) ==
    IF orTest.p.ahead # "TK_IF"
    THEN orTest
    ELSE LET q == consumeToken(orTest.p)
             cond == invoke("parseOrTest", q)
             e == match(cond.p, "TK_ELSE")
             no == invoke("parseTest", e.p)
         IN  R(no.p, N("CondExpr", <<q.last, e.p.last>>,
                       <<orTest.a, cond.a, no.a>>))

\* parseTest(): CondExpr [questionLoc, delimLoc] (yes, cond, no)
parseTest(p) ==
    IF p.ahead = "TK_LAMBDA"
    THEN invoke("parseLambdaDef", p)
    ELSE parseTestCond(parseOrTest(p))

parseOldTest(p) ==
    IF p.ahead = "TK_LAMBDA"
    THEN invoke("parseOldLambdaDef", p)
    ELSE parseOrTest(p)

parseOrTestLoop(andTest) ==
    IF andTest.p.ahead = "TK_OR"
    THEN parseOrTestLoop(completeBinaryExpr("LogicOrExpr",
                                            consumeToken(andTest.p),
                                            andTest.a, "parseAndTest"))
    ELSE andTest

parseOrTest(p) == parseOrTestLoop(parseAndTest(p))

parseAndTestLoop(notTest) ==
    IF notTest.p.ahead = "TK_AND"
    THEN parseAndTestLoop(completeBinaryExpr("LogicAndExpr",
                                             consumeToken(notTest.p),
                                             notTest.a, "parseNotTest"))
    ELSE notTest

parseAndTest(p) == parseAndTestLoop(parseNotTest(p))

\* parseNotTest(): LogicNotExpr [oprLoc] (expr)
parseNotTest(p) ==
    IF p.ahead = "TK_NOT"
    THEN completeUnaryExpr("LogicNotExpr", consumeToken(p), "parseNotTest")
    ELSE parseComparison(p)

parseComparisonLoop(expr) ==
    CASE expr.p.ahead \in {"TK_LESS", "TK_GREATER", "TK_EQUAL_EQUAL",
                           "TK_GREATER_EQUAL", "TK_LESS_EQUAL",
                           "TK_LESS_GREATER", "TK_EXCLAM_EQUAL"} ->
            parseComparisonLoop(
                completeBinaryExpr("RelExpr", consumeToken(expr.p), expr.a,
                                   "parseExpr"))
      [] expr.p.ahead = "TK_IN" ->
            parseComparisonLoop(
                completeBinaryExpr("InExpr", consumeToken(expr.p), expr.a,
                                   "parseExpr"))
      [] expr.p.ahead = "TK_IS" ->
            parseComparisonLoop(
                completeBinaryExpr("IsExpr",
                                   maybeConsume(consumeToken(expr.p),
                                                "TK_NOT").p,
                                   expr.a, "parseExpr"))
      [] expr.p.ahead = "TK_NOT" ->
            parseComparisonLoop(
                completeBinaryExpr("InExpr",
                                   match(consumeToken(expr.p), "TK_IN").p,
                                   expr.a, "parseExpr"))
      [] OTHER -> expr

parseComparison(p) == parseComparisonLoop(parseExpr(p))

parseExpr(p) == parseBinaryExpr(p, Or)

\* parseBinaryExpr(curPrec): the while loop; a binary node is
\* kind [oprLoc] (expr1, expr2).
parseBinaryExprLoop(factor, curPrec) ==
    IF fetchPrecAhead(factor.p).prec < curPrec
    THEN factor
    ELSE LET q == consumeToken(factor.p)
             rhs == invoke("parseBinaryExpr", <<q, curPrec + 1>>)
         IN  parseBinaryExprLoop(
                 R(rhs.p, N(fetchPrecAhead(factor.p).k, <<q.last>>,
                            <<factor.a, rhs.a>>)),
                 curPrec)

parseBinaryExpr(p, curPrec) == parseBinaryExprLoop(parseFactor(p), curPrec)

parseFactor(p) ==
    CASE p.ahead = "TK_PLUS" ->
            completeUnaryExpr("PlusExpr", consumeToken(p), "parseFactor")
      [] p.ahead = "TK_MINUS" ->
            completeUnaryExpr("MinusExpr", consumeToken(p), "parseFactor")
      [] p.ahead = "TK_TILDE" ->
            completeUnaryExpr("BitCompExpr", consumeToken(p), "parseFactor")
      [] OTHER -> parsePower(p)

\* parsePower(): the trailer loop.
\*   CallExpr [lDelimLoc, rDelimLoc] (base, args)
\*   ArraySliceExpr [lDelimLoc] (base, range)
\*   MemberAccessExpr [oprLoc] (expr, name)
parsePowerLoop(atom) ==
    CASE atom.p.ahead = "TK_LPAREN" ->
            LET q == consumeToken(atom.p)
                args == IF isArgAhead(q) THEN invoke("parseArgList", q)
                        ELSE R(q, NoList)
                m == match(args.p, "TK_RPAREN")
                e == IF m.b THEN m.p
                     ELSE [skipTo(m.p, "TK_RPAREN")
                             EXCEPT !.g.openCalls = @ + 1]
            IN  parsePowerLoop(R(e, N("CallExpr", <<q.last, e.last>>,
                                      <<atom.a, args.a>>)))
      [] atom.p.ahead = "TK_LBRACKET" ->
            LET q == consumeToken(atom.p)
                range == invoke("parseSubscript", q)
                e == matchOrSkipTo(range.p, "TK_RBRACKET")
            IN  parsePowerLoop(R(e, N("ArraySliceExpr", <<q.last>>,
                                      <<atom.a, range.a>>)))
      [] atom.p.ahead = "TK_DOT" ->
            LET q == consumeToken(atom.p)
                name == parseName(q)
            IN  parsePowerLoop(R(name.p, N("MemberAccessExpr", <<q.last>>,
                                           <<atom.a, name.a>>)))
      [] OTHER -> atom

\* parsePower(), from "if (maybeConsume(TK_STAR_STAR))" on.
parsePowerTail(atom) ==
    IF atom.p.ahead = "TK_STAR_STAR"
    THEN completeBinaryExpr("PowerExpr", consumeToken(atom.p), atom.a,
                            "parseFactor")
    ELSE atom

parsePower(p) == parsePowerTail(parsePowerLoop(parseAtom(p)))

\* parseAtom(): a literal is kind [litLoc]; the backtick form is a StrLit
\* whose location joins the opening backtick with the last token consumed.
parseAtom(p) ==
    CASE p.ahead = "TK_LPAREN" -> parseWrappedOrTuple(p)
      [] p.ahead = "TK_LBRACE" -> invoke("parseDictOrSetMaker", p)
      [] p.ahead = "TK_LBRACKET" -> invoke("parseListMaker", p)
      [] p.ahead = "TK_BACKTICK" ->
            LET q == consumeToken(p)
                l == invoke("parseTestList1", q)
                e == matchOrSkipTo(l.p, "TK_BACKTICK")
            IN  R(e, N("StrLitExpr", <<q.last, e.last>>, <<>>))
      [] p.ahead = "TK_IDENTIFIER" ->
            LET name == parseName(p)
            IN  R(name.p, N("IdentExpr", <<>>, <<name.a>>))
      [] p.ahead \in {"TK_INTEGER_LITERAL", "TK_FLOAT_LITERAL"} ->
            LET q == consumeToken(p)
            IN  R(q, N("NumLitExpr", <<q.last>>, <<>>))
      [] p.ahead = "TK_NULL_LITERAL" ->
            LET q == consumeToken(p)
            IN  R(q, N("NullLitExpr", <<q.last>>, <<>>))
      [] p.ahead \in {"TK_TRUE_LITERAL", "TK_FALSE_LITERAL"} ->
            LET q == consumeToken(p)
            IN  R(q, N("BoolLitExpr", <<q.last>>, <<>>))
      [] p.ahead = "TK_STRING_LITERAL" -> invoke("parseStrLit", p)
      [] OTHER -> R(failMatch(p, TRUE), Null)

\* parseStrLit(): StrLitExpr [litLoc]; ConcatExpr (expr1, expr2)
parseStrLit(p) ==
    IF p.ahead # "TK_STRING_LITERAL"
    THEN R(p, Null)
    ELSE LET m == match(p, "TK_STRING_LITERAL")
             str == N("StrLitExpr", <<m.p.last>>, <<>>)
         IN  IF m.p.ahead = "TK_STRING_LITERAL"
             THEN LET r == invoke("parseStrLit", m.p)
                  IN  R(r.p, N("ConcatExpr", <<>>, <<str, r.a>>))
             ELSE R(m.p, str)

\* makeAst<ListCompreExprAst>(): ListCompreExpr [lDelimLoc, rDelimLoc]
\* (expr, gens); a generator is Generator [oprLoc] (patterns, range, filters)
NewListCompre == N("ListCompreExpr", <<0, 0>>, <<Null, NoList>>)

addGen(lc, gen) == SetC(lc, 2, ListOf(Append(lc.c[2].c, gen)))

\* parseArg(), from "switch (ahead_)" on: test is what parseTest returned.
parseArgTail(test) ==
    CASE test.p.ahead = "TK_FOR" ->
            LET lc == invoke("parseCompFor", <<test.p, NewListCompre>>)
            IN  R(lc.p, SetC(lc.a, 1, test.a))
      [] test.p.ahead = "TK_EQUAL" ->
            invoke("completeAssignExpr", <<consumeToken(test.p), test.a,
                                           "parseTest">>)
      [] OTHER -> test

\* parseArg(): argument: test [comp_for] | test '=' test
parseArg(p) == parseArgTail(parseTest(p))

\* UnpackExpr [keyLoc] (expr), for '*' test and '**' test
parseUnpack(p) ==
    LET r == invoke("parseTest", p)
    IN  R(r.p, N("UnpackExpr", <<p.last>>, <<r.a>>))

\* parseArgList(), from "if (maybeConsume(TK_STAR_STAR))" on.
parseArgListTail(p, args, wantStarStar) ==
    LET m == maybeConsume(p, "TK_STAR_STAR")
    IN  IF m.b
        THEN LET u == invoke("parseUnpack", m.p)
             IN  R(u.p, addToList(args, u.a))
        ELSE IF wantStarStar
             THEN R(failMatch(m.p, TRUE), args)
             ELSE R(m.p, args)

\* parseArgList(), from "if (maybeConsume(TK_STAR))" on.
parseArgListStar(p, args) ==
    LET m == maybeConsume(p, "TK_STAR")
    IN  IF ~m.b
        THEN invoke("parseArgListTail", <<m.p, args, FALSE>>)
        ELSE LET u == invoke("parseUnpack", m.p)
                 args1 == addToList(args, u.a)
                 c == maybeConsume(u.p, "TK_COMMA")
             IN  IF ~c.b
                 THEN invoke("parseArgListTail", <<c.p, args1, FALSE>>)
                 ELSE IF isTestAhead(c.p)
                      THEN LET l == parseList(c.p, "TK_COMMA", "isTestAhead",
                                              "parseArg", TRUE)
                           IN  invoke("parseArgListTail", <<l.p, mergeList(args1, l.a),
                                                l.t>>)
                      ELSE invoke("parseArgListTail", <<c.p, args1, TRUE>>)

\* parseArgList(), after the leading list of arguments.
parseArgListArgs(l) ==
    IF ~l.t THEN R(l.p, l.a) ELSE parseArgListStar(l.p, l.a)

parseArgList(p) ==
    IF isTestAhead(p)
    THEN parseArgListArgs(parseList(p, "TK_COMMA", "isTestAhead", "parseArg",
                                    TRUE))
    ELSE parseArgListStar(p, NoList)

\* parseCompFor(listCompre): comp_for: 'for' exprlist 'in' or_test [comp_iter]
parseCompFor(p, listCompre) ==
    IF p.ahead # "TK_FOR"
    THEN R(p, listCompre)
    ELSE LET m == match(p, "TK_FOR")
             pats == invoke("parseExprList", m.p)
             i == match(pats.p, "TK_IN")
             range == invoke("parseOrTest", i.p)
             gen == N("Generator", <<i.p.last>>, <<pats.a, range.a, NoList>>)
         IN  invoke("completeListCompre", <<range.p, addGen(listCompre, gen), "Comp">>)

\* parseListFor(listCompre): list_for: 'for' exprlist 'in' testlist_safe
\* [list_iter]; the range is the head of the list, when there is one.
parseListFor(p, listCompre) ==
    IF p.ahead # "TK_FOR"
    THEN R(p, listCompre)
    ELSE LET m == match(p, "TK_FOR")
             pats == invoke("parseExprList", m.p)
             i == match(pats.p, "TK_IN")
             tests == invoke("parseTestListSafe", i.p)
             range == IF tests.a # NoList THEN Head(tests.a.c) ELSE Null
             gen == N("Generator", <<i.p.last>>, <<pats.a, range, NoList>>)
         IN  invoke("completeListCompre", <<tests.p, addGen(listCompre, gen), "List">>)

\* parseListOrCompIf(listCompre, genFunc, filterFunc): style names the pair
\* of functions, (parseCompFor, parseCompIf) or (parseListFor, parseListIf).
parseListOrCompIf(p, listCompre, style) ==
    IF p.ahead # "TK_IF" \/ listCompre.c[2] = NoList
    THEN R(p, listCompre)
    ELSE LET m == match(p, "TK_IF")
             f == invoke("parseOldTest", m.p)
             gens == listCompre.c[2].c
             gen == gens[Len(gens)]
             gen1 == SetC(gen, 3, addToList(gen.c[3], f.a))
             lc == SetC(listCompre, 2,
                        ListOf([gens EXCEPT ![Len(gens)] = gen1]))
         IN  invoke("completeListCompre", <<f.p, lc, style>>)

parseCompIf(p, listCompre) == invoke("parseListOrCompIf", <<p, listCompre, "Comp">>)

parseListIf(p, listCompre) == invoke("parseListOrCompIf", <<p, listCompre, "List">>)

completeListCompre(p, listCompre, style) ==
    CASE p.ahead = "TK_FOR" ->
            IF style = "Comp" THEN invoke("parseCompFor", <<p, listCompre>>)
            ELSE invoke("parseListFor", <<p, listCompre>>)
      [] p.ahead = "TK_IF" ->
            IF style = "Comp" THEN invoke("parseCompIf", <<p, listCompre>>)
            ELSE invoke("parseListIf", <<p, listCompre>>)
      [] OTHER -> R(p, listCompre)

\* completeSubrangeExpr(expr): SubrangeExpr [delim1Loc, delim2Loc]
\* (low, hi, max)
completeSubrangeExpr(p, expr) ==
    LET hi == IF isTestAhead(p) THEN invoke("parseTest", p) ELSE R(p, Null)
        m == maybeConsume(hi.p, "TK_COLON")
        delim2 == IF m.b THEN m.p.last ELSE 0
        max == IF isTestAhead(m.p) THEN invoke("parseTest", m.p) ELSE R(m.p, Null)
    IN  R(max.p, N("SubrangeExpr", <<p.last, delim2>>, <<expr, hi.a, max.a>>))

parseSubscript(p) ==
    CASE p.ahead = "TK_DOT_DOT_DOT" ->
            R(consumeToken(p), N("SubrangeExpr", <<0, 0>>, <<Null, Null, Null>>))
      [] p.ahead = "TK_COLON" -> invoke("completeSubrangeExpr", <<consumeToken(p), Null>>)
      [] OTHER ->
            LET test == invoke("parseTest", p)
                m == maybeConsume(test.p, "TK_COLON")
            IN  IF m.b THEN invoke("completeSubrangeExpr", <<m.p, test.a>>)
                ELSE R(m.p, test.a)

\* parseDictOrSetMaker(): the loop over ", test : test" of a dictionary.
\* DesignateExpr [delimLoc] (id, value)
parseDictLoop(p, inits) ==
    LET m == maybeConsume(p, "TK_COMMA")
    IN  IF ~m.b \/ ~isTestAhead(m.p)
        THEN R(m.p, inits)
        ELSE LET id == invoke("parseTest", m.p)
                 c == match(id.p, "TK_COLON")
                 value == invoke("parseTest", c.p)
                 desig == N("DesignateExpr", <<c.p.last>>, <<id.a, value.a>>)
             IN  invoke("parseDictLoop", <<value.p, addToList(inits, desig)>>)

\* parseDictOrSetMaker(): ArrayInitExpr [lDelimLoc, rDelimLoc] (inits)
parseDictOrSetMaker(p) ==
    IF p.ahead # "TK_LBRACE"
    THEN R(p, Null)
    ELSE
    LET o == match(p, "TK_LBRACE")
        lDelim == o.p.last
        r == maybeConsume(o.p, "TK_RBRACE")
        test == invoke("parseTest", r.p)
        Close(q, inits) ==
            LET e == matchOrSkipTo(q, "TK_RBRACE")
            IN  R(e, N("ArrayInitExpr", <<lDelim, e.last>>, <<inits>>))
        Compre(q, expr) ==
            LET lc == invoke("parseListFor", <<q, NewListCompre>>)
                e == matchOrSkipTo(lc.p, "TK_RBRACE")
            IN  R(e, N("ListCompreExpr", <<lDelim, e.last>>,
                       <<expr, lc.a.c[2]>>))
    IN  IF r.b
        THEN R(r.p, N("ArrayInitExpr", <<lDelim, r.p.last>>, <<NoList>>))
        ELSE CASE test.p.ahead = "TK_COLON" ->
                    LET q == consumeToken(test.p)
                        value == invoke("parseTest", q)
                        desig == N("DesignateExpr", <<q.last>>,
                                   <<test.a, value.a>>)
                    IN  IF value.p.ahead = "TK_FOR"
                        THEN Compre(value.p, desig)
                        ELSE LET l == invoke("parseDictLoop", <<value.p, create(desig)>>)
                             IN  Close(l.p, l.a)
               [] test.p.ahead = "TK_FOR" -> Compre(test.p, test.a)
               [] test.p.ahead = "TK_COMMA" ->
                    LET q == consumeToken(test.p)
                        l == invoke("parseTestList", q)
                    IN  Close(l.p, mergeList(addToList(NoList, test.a), l.a))
               [] OTHER -> Close(test.p, addToList(NoList, test.a))

\* parseListMaker(): ArrayInitExpr [lDelimLoc, rDelimLoc] (inits)
parseListMaker(p) ==
    IF p.ahead # "TK_LBRACKET"
    THEN R(p, Null)
    ELSE
    LET o == match(p, "TK_LBRACKET")
        lDelim == o.p.last
        r == maybeConsume(o.p, "TK_RBRACKET")
        test == invoke("parseTest", r.p)
        Close(q, inits) ==
            LET e == matchOrSkipTo(q, "TK_RBRACKET")
            IN  R(e, N("ArrayInitExpr", <<lDelim, e.last>>, <<inits>>))
    IN  IF r.b
        THEN R(r.p, N("ArrayInitExpr", <<lDelim, r.p.last>>, <<NoList>>))
        ELSE CASE test.p.ahead = "TK_FOR" ->
                    LET lc == invoke("parseListFor", <<test.p, NewListCompre>>)
                        e == matchOrSkipTo(lc.p, "TK_RBRACKET")
                    IN  R(e, N("ListCompreExpr", <<lDelim, e.last>>,
                               <<test.a, lc.a.c[2]>>))
               [] test.p.ahead = "TK_COMMA" ->
                    LET q == consumeToken(test.p)
                        l == IF isTestAhead(q) THEN invoke("parseTestList", q)
                             ELSE [p |-> q, a |-> NoList, t |-> FALSE]
                    IN  Close(l.p, mergeList(addToList(NoList, test.a), l.a))
               [] OTHER -> Close(test.p, addToList(NoList, test.a))

\* completeWrapped(exprFunc), after the closure returned expr.
completeWrappedEnd(lDelim, expr) ==
    LET e == matchOrSkipTo(expr.p, "TK_RPAREN")
    IN  R(e, N("WrappedExpr", <<lDelim, e.last>>, <<expr.a>>))

\* completeWrapped(exprFunc): WrappedExpr [lDelimLoc, rDelimLoc] (expr).
\* how names the closure passed: "yield" parses a yield expression, "for"
\* completes a comprehension over test, "test" returns test.
completeWrapped(p, how, test) ==
    completeWrappedEnd(
        p.last,
        CASE how = "yield" -> invoke("parseYieldExpr", p)
          [] how = "for" ->
                LET lc == invoke("parseListFor", <<p, NewListCompre>>)
                IN  R(lc.p, SetC(lc.a, 1, test))
          [] OTHER -> R(p, test))

\* parseWrappedOrTuple(), from "switch (ahead_)" on: test is what
\* parseTest returned.
parseWrappedOrTupleTail(lDelim, test) ==
    CASE test.p.ahead = "TK_FOR" -> completeWrapped(test.p, "for", test.a)
      [] test.p.ahead = "TK_COMMA" ->
            LET q == consumeToken(test.p)
                l == IF isTestAhead(q) THEN invoke("parseTestList", q)
                     ELSE [p |-> q, a |-> NoList, t |-> FALSE]
                e == matchOrSkipTo(l.p, "TK_RPAREN")
            IN  R(e, N("TupleLitExpr", <<lDelim, e.last>>,
                       <<mergeList(addToList(NoList, test.a), l.a)>>))
      [] OTHER -> completeWrapped(test.p, "test", test.a)

\* parseWrappedOrTuple(), after match(TK_LPAREN).
parseWrappedOrTupleOpen(o) ==
    CASE o.ahead = "TK_RPAREN" ->
            R(consumeToken(o),
              N("TupleLitExpr", <<o.last, consumeToken(o).last>>, <<NoList>>))
      [] o.ahead = "TK_YIELD" -> completeWrapped(o, "yield", Null)
      [] OTHER -> parseWrappedOrTupleTail(o.last, invoke("parseTest", o))

\* parseWrappedOrTuple(): TupleLitExpr [lDelimLoc, rDelimLoc] (inits)
parseWrappedOrTuple(p) ==
    IF p.ahead # "TK_LPAREN"
    THEN R(p, Null)
    ELSE parseWrappedOrTupleOpen(match(p, "TK_LPAREN").p)

\* parseYieldExpr(): YieldExpr [keyLoc] (exprs)
parseYieldExpr(p) ==
    IF p.ahead # "TK_YIELD"
    THEN R(p, Null)
    ELSE LET m == match(p, "TK_YIELD")
             l == IF isTestAhead(m.p) THEN invoke("parseTestList", m.p)
                  ELSE [p |-> m.p, a |-> NoList, t |-> FALSE]
         IN  R(l.p, N("YieldExpr", <<m.p.last>>, <<l.a>>))

\* completeParam(group): ParamDeclVariadic [variadicLoc] (name) added to the
\* group; ParamGroupDecl (spec, decls)
completeParam(p, group) ==
    LET name == invoke("parseName", p)
        param == N("ParamDeclVariadic", <<p.last>>, <<name.a>>)
    IN  R(name.p, SetC(group, 2, addToList(group.c[2], param)))

NewParamGroup == N("ParamGroupDecl", <<>>, <<N("InferredSpec", <<>>, <<>>), NoList>>)

\* The loop of parseVarArgsList() taking names and stars whatever seenStar is.
parseVarArgsListLoopLax(p, decls, seenStar) ==
    CASE p.ahead = "TK_IDENTIFIER" ->
            LET name == invoke("parseName", p)
                m == maybeConsume(name.p, "TK_EQUAL")
                def == invoke("parseTest", m.p)
                param == IF m.b
                         THEN N("ParamDeclDefault", <<m.p.last>>,
                                <<name.a, def.a>>)
                         ELSE N("ParamDecl", <<>>, <<name.a>>)
                q == IF m.b THEN def.p ELSE m.p
                group == SetC(NewParamGroup, 2, addToList(NoList, param))
                c == maybeConsume(q, "TK_COMMA")
            IN  IF c.b
                THEN invoke("parseVarArgsListLoop", <<c.p, addToList(decls, group), FALSE>>)
                ELSE R(c.p, addToList(decls, group))
      [] p.ahead = "TK_STAR" ->
            LET g == invoke("completeParam", <<consumeToken(p), NewParamGroup>>)
                c == maybeConsume(g.p, "TK_COMMA")
            IN  IF c.b
                THEN invoke("parseVarArgsListLoop", <<c.p, addToList(decls, g.a), TRUE>>)
                ELSE R(c.p, addToList(decls, g.a))
      [] p.ahead = "TK_STAR_STAR" ->
            LET g == invoke("completeParam", <<consumeToken(p), NewParamGroup>>)
            IN  R(g.p, addToList(decls, g.a))
      [] OTHER -> R(p, decls)

\* parseVarArgsList(wantParen): the do-while loop over the parameters.
\* ParamDecl (name); ParamDeclDefault [assignLoc] (name, defaultArg)
parseVarArgsListLoop(p, decls, seenStar) ==
    CASE p.ahead = "TK_IDENTIFIER" /\ ~seenStar ->
            LET name == invoke("parseName", p)
                m == maybeConsume(name.p, "TK_EQUAL")
                def == invoke("parseTest", m.p)
                param == IF m.b
                         THEN N("ParamDeclDefault", <<m.p.last>>,
                                <<name.a, def.a>>)
                         ELSE N("ParamDecl", <<>>, <<name.a>>)
                q == IF m.b THEN def.p ELSE m.p
                group == SetC(NewParamGroup, 2, addToList(NoList, param))
                c == maybeConsume(q, "TK_COMMA")
            IN  IF c.b
                THEN invoke("parseVarArgsListLoop", <<c.p, addToList(decls, group), FALSE>>)
                ELSE R(c.p, addToList(decls, group))
      [] p.ahead = "TK_STAR" /\ ~seenStar ->
            LET g == invoke("completeParam", <<consumeToken(p), NewParamGroup>>)
                c == maybeConsume(g.p, "TK_COMMA")
            IN  IF c.b
                THEN invoke("parseVarArgsListLoop", <<c.p, addToList(decls, g.a), TRUE>>)
                ELSE R(c.p, addToList(decls, g.a))
      [] p.ahead = "TK_STAR_STAR" ->
            LET g == invoke("completeParam", <<consumeToken(p), NewParamGroup>>)
            IN  R(g.p, addToList(decls, g.a))
      [] OTHER -> R(p, decls)

\* parseVarArgsList(wantParen): ParamClauseDecl [lDelimLoc] (decls)
parseVarArgsList(p, wantParen) ==
    LET o == IF wantParen THEN match(p, "TK_LPAREN").p ELSE p
        lDelim == IF wantParen THEN o.last ELSE 0
        l == invoke("parseVarArgsListLoop", <<o, NoList, FALSE>>)
        e == IF wantParen THEN matchOrSkipTo(l.p, "TK_RPAREN") ELSE l.p
    IN  R(e, N("ParamClauseDecl", <<lDelim>>, <<l.a>>))

\* parseLambdaCore(parseFunc): FuncLitExpr (spec, stmt), with
\* FuncSpec [keyLoc, lDelimLoc] (param) and ExprStmt (exprs)
parseLambdaCore(p, parseFunc) ==
    IF p.ahead # "TK_LAMBDA"
    THEN R(p, Null)
    ELSE LET m == match(p, "TK_LAMBDA")
             param == invoke("parseVarArgsList", <<m.p, FALSE>>)
             c == match(param.p, "TK_COLON")
             body == invoke(parseFunc, c.p)
             spec == N("FuncSpec", <<m.p.last, c.p.last>>, <<param.a>>)
         IN  R(body.p, N("FuncLitExpr", <<>>,
                         <<spec, N("ExprStmt", <<>>,
                                   <<addToList(NoList, body.a)>>)>>))

parseLambdaDef(p) == invoke("parseLambdaCore", <<p, "parseTest">>)

parseOldLambdaDef(p) == invoke("parseLambdaCore", <<p, "parseOldTest">>)

-----------------------------------------------------------------------------
(* Statements *)

ExprStmt(exprs) == N("ExprStmt", <<>>, <<exprs>>)

DeclStmt(decl) == N("DeclStmt", <<>>, <<decl>>)

NoTrail(q) == [p |-> q, a |-> NoList, t |-> FALSE]

parseStmt(p) ==
    CASE p.ahead = "TK_IF" -> parseIfStmt(p)
      [] p.ahead = "TK_WHILE" -> parseWhileStmt(p)
      [] p.ahead = "TK_FOR" -> parseForStmt(p)
      [] p.ahead = "TK_TRY" -> parseTryStmt(p)
      [] p.ahead = "TK_WITH" -> parseWithStmt(p)
      [] p.ahead = "TK_FUNC" -> parseFuncDef(p)
      [] p.ahead = "TK_CLASS" -> parseClassDef(p)
      [] p.ahead = "TK_AT_SYMBOL" -> parseDecorated(p)
      [] OTHER -> parseSimpleStmt(p)

\* parseSimpleStmt(): the loop over "; small_stmt"; block holds the state
\* left by the last statement and the statements collected.
parseSimpleStmtLoop(block) ==
    IF block.p.ahead # "TK_SEMICOLON"
       \/ consumeToken(block.p).ahead \in {"TK_NEWLINE", "TK_EOP"}
    THEN R(maybeConsume(block.p, "TK_SEMICOLON").p, block.a)
    ELSE LET r == invoke("parseSmallStmt", consumeToken(block.p))
         IN  parseSimpleStmtLoop(R(r.p, addToList(block.a, r.a)))

\* parseSimpleStmt(), from "if (maybeConsume(TK_NEWLINE))" on.
\* BlockStmt (stmts)
parseSimpleStmtTail(stmt) ==
    IF stmt.p.ahead = "TK_NEWLINE"
    THEN R(consumeToken(stmt.p), stmt.a)
    ELSE LET l == parseSimpleStmtLoop(R(stmt.p, addToList(NoList, stmt.a)))
             e == matchOrSkipTo(l.p, "TK_NEWLINE")
         IN  R(e, N("BlockStmt", <<>>, <<l.a>>))

parseSimpleStmt(p) == parseSimpleStmtTail(parseSmallStmt(p))

AugAssign ==
    {"TK_PLUS_EQUAL", "TK_MINUS_EQUAL", "TK_STAR_EQUAL", "TK_SLASH_EQUAL",
     "TK_PERCENT_EQUAL", "TK_AMPER_EQUAL", "TK_PIPE_EQUAL", "TK_CARET_EQUAL",
     "TK_LESS_LESS_EQUAL", "TK_GREATER_GREATER_EQUAL", "TK_STAR_STAR_EQUAL",
     "TK_SLASH_SLASH_EQUAL"}

\* The loop of parseExprStmt() going on after every assignment operator.
RECURSIVE parseExprStmtLoopOn(_)
parseExprStmtLoopOn(exprs) ==
    IF exprs.p.ahead \in AugAssign \cup {"TK_EQUAL"}
    THEN LET q == consumeToken(exprs.p)
             rhs == IF q.ahead = "TK_YIELD"
                    THEN LET y == invoke("parseYieldExpr", q)
                         IN  R(y.p, create(y.a))
                    ELSE LET l == invoke("parseTestList", q) IN R(l.p, l.a)
             assign == N("AssignExpr", <<q.last>>, <<exprs.a, rhs.a>>)
         IN  parseExprStmtLoopOn(R(rhs.p, create(assign)))
    ELSE R(exprs.p, ExprStmt(exprs.a))

\* parseExprStmt(): the while loop.  AssignExpr [oprLoc] (expr1s, expr2s)
parseExprStmtLoop(exprs) ==
    IF exprs.p.ahead \in AugAssign \cup {"TK_EQUAL"}
    THEN LET augmented == exprs.p.ahead \in AugAssign
             q == consumeToken(exprs.p)
             rhs == IF q.ahead = "TK_YIELD"
                    THEN LET y == invoke("parseYieldExpr", q)
                         IN  R(y.p, create(y.a))
                    ELSE LET l == invoke("parseTestList", q) IN R(l.p, l.a)
             assign == N("AssignExpr", <<q.last>>, <<exprs.a, rhs.a>>)
         IN  IF augmented \/ rhs.p.ahead # "TK_EQUAL"
             THEN R(rhs.p, ExprStmt(create(assign)))
             ELSE parseExprStmtLoop(R(rhs.p, create(assign)))
    ELSE R(exprs.p, ExprStmt(exprs.a))

parseExprStmt(p) == parseExprStmtLoop(parseTestList(p))

\* parsePrintStmt(): PrintExpr [keyLoc, oprLoc] (exprs)
parsePrintStmt(p) ==
    IF p.ahead # "TK_PRINT"
    THEN R(p, Null)
    ELSE
    LET k == match(p, "TK_PRINT")
        s == maybeConsume(k.p, "TK_GREATER_GREATER")
        oprLoc == IF s.b THEN s.p.last ELSE 0
        dest == IF s.b THEN invoke("parseTest", s.p) ELSE R(s.p, Null)
        c == IF s.b THEN maybeConsume(dest.p, "TK_COMMA")
             ELSE [p |-> dest.p, b |-> FALSE]
        exprs0 == addToList(NoList, dest.a)
        PrintStmt(exprs) == ExprStmt(create(N("PrintExpr", <<k.p.last, oprLoc>>,
                                          <<exprs>>)))
    IN  IF s.b /\ ~c.b
        THEN R(c.p, PrintStmt(exprs0))
        ELSE IF c.b \/ isTestAhead(c.p)
             THEN LET test == invoke("parseTest", c.p)
                      exprs1 == addToList(exprs0, test.a)
                      m == maybeConsume(test.p, "TK_COMMA")
                      l == IF m.b /\ isTestAhead(m.p)
                           THEN invoke("parseTestList", m.p) ELSE NoTrail(m.p)
                  IN  R(l.p, PrintStmt(mergeList(exprs1, l.a)))
             ELSE R(c.p, PrintStmt(exprs0))

\* parseDelStmt(): DelExpr [keyLoc] (exprs)
parseDelStmt(p) ==
    IF p.ahead # "TK_DELETE"
    THEN R(p, Null)
    ELSE LET k == match(p, "TK_DELETE")
             l == invoke("parseExprList", k.p)
         IN  R(l.p, ExprStmt(create(N("DelExpr", <<k.p.last>>, <<l.a>>))))

\* parsePassStmt(): EmptyStmt [keyLoc]
parsePassStmt(p) ==
    IF p.ahead # "TK_PASS"
    THEN R(p, Null)
    ELSE LET k == match(p, "TK_PASS")
         IN  R(k.p, N("EmptyStmt", <<k.p.last>>, <<>>))

\* parseContinueStmt(): ContinueStmt [keyLoc]
parseContinueStmt(p) ==
    IF p.ahead # "TK_CONTINUE"
    THEN R(p, Null)
    ELSE LET k == match(p, "TK_CONTINUE")
         IN  R(k.p, N("ContinueStmt", <<k.p.last>>, <<>>))

\* parseBreakStmt(): BreakStmt [keyLoc]
parseBreakStmt(p) ==
    IF p.ahead # "TK_BREAK"
    THEN R(p, Null)
    ELSE LET k == match(p, "TK_BREAK")
         IN  R(k.p, N("BreakStmt", <<k.p.last>>, <<>>))

\* parseYieldStmt(): YieldStmt (expr)
parseYieldStmt(p) ==
    IF p.ahead # "TK_YIELD"
    THEN R(p, Null)
    ELSE LET y == invoke("parseYieldExpr", p)
         IN  R(y.p, N("YieldStmt", <<>>, <<y.a>>))

\* parseRaiseStmt(): ThrowStmt [keyLoc] (expr)
parseRaiseStmt(p) ==
    IF p.ahead # "TK_THROW"
    THEN R(p, Null)
    ELSE LET k == match(p, "TK_THROW")
             test == invoke("parseTest", k.p)
             c1 == maybeConsume(test.p, "TK_COMMA")
             t2 == IF c1.b THEN invoke("parseTest", c1.p) ELSE R(c1.p, Null)
             c2 == IF c1.b THEN maybeConsume(t2.p, "TK_COMMA")
                   ELSE [p |-> t2.p, b |-> FALSE]
             t3 == IF c2.b THEN invoke("parseTest", c2.p) ELSE R(c2.p, Null)
         IN  IF isTestAhead(k.p)
             THEN R(t3.p, N("ThrowStmt", <<k.p.last>>, <<test.a>>))
             ELSE R(k.p, N("ThrowStmt", <<k.p.last>>, <<Null>>))

\* parseReturnStmt(): ReturnStmt [keyLoc] (exprs)
parseReturnStmt(p) ==
    IF p.ahead # "TK_RETURN"
    THEN R(p, Null)
    ELSE LET k == match(p, "TK_RETURN")
             l == IF isTestAhead(k.p) THEN invoke("parseTestList", k.p)
                  ELSE NoTrail(k.p)
         IN  R(l.p, N("ReturnStmt", <<k.p.last>>, <<l.a>>))

parseFlowStmt(p) ==
    CASE p.ahead = "TK_BREAK" -> invoke("parseBreakStmt", p)
      [] p.ahead = "TK_CONTINUE" -> invoke("parseContinueStmt", p)
      [] p.ahead = "TK_RETURN" -> invoke("parseReturnStmt", p)
      [] p.ahead = "TK_THROW" -> invoke("parseRaiseStmt", p)
      [] p.ahead = "TK_YIELD" -> invoke("parseYieldStmt", p)
      [] OTHER -> R(p, Null)

\* ImportModuleDecl [asLoc, selectLoc] (expr, localName, members)
ImportModule(asLoc, selectLoc, name, localName, members) ==
    N("ImportModuleDecl", <<asLoc, selectLoc>>,
      <<N("IdentExpr", <<>>, <<name>>), localName, members>>)

\* parseImportStmt(), case TK_IMPORT: the do-while loop over the modules.
parseImportLoop(p, modules) ==
    LET name == invoke("parseDottedName", p)
        m == maybeConsume(name.p, "TK_AS")
        local == IF m.b THEN invoke("parseName", m.p) ELSE R(m.p, Null)
        module == ImportModule(IF m.b THEN m.p.last ELSE 0, 0, name.a,
                               local.a, NoList)
        c == maybeConsume(local.p, "TK_COMMA")
    IN  IF c.b THEN invoke("parseImportLoop", <<c.p, addToList(modules, module)>>)
        ELSE R(c.p, addToList(modules, module))

\* parseSubImports(selective): the do-while loop over the names.
\* ImportMemberDecl [asLoc] (actualName, nickName)
parseSubImportsLoop(p, decls, selective) ==
    LET name == invoke("parseName", p)
        m == maybeConsume(name.p, "TK_AS")
        nick == IF m.b THEN invoke("parseName", m.p) ELSE R(m.p, Null)
        asLoc == IF m.b THEN m.p.last ELSE 0
        decl == IF selective
                THEN N("ImportMemberDecl", <<asLoc>>, <<name.a, nick.a>>)
                ELSE ImportModule(asLoc, 0, name.a, nick.a, NoList)
        c == maybeConsume(nick.p, "TK_COMMA")
    IN  IF c.b THEN invoke("parseSubImportsLoop", <<c.p, addToList(decls, decl), selective>>)
        ELSE R(c.p, addToList(decls, decl))

\* parseSubImports() taking the star whatever selective is.
parseSubImportsAnyStar(p, selective) ==
    IF p.ahead = "TK_STAR"
    THEN LET q == consumeToken(p)
             star == N("GenName", <<q.last>>, <<>>)
         IN  R(q, create(N("ImportMemberDecl", <<0>>, <<star, Null>>)))
    ELSE LET wantParen == p.ahead = "TK_LPAREN"
             o == IF wantParen THEN consumeToken(p) ELSE p
             l == invoke("parseSubImportsLoop", <<o, NoList, selective>>)
             e == IF wantParen THEN matchOrSkipTo(l.p, "TK_RPAREN") ELSE l.p
         IN  IF l.a = NoList THEN R(failMatch(e, TRUE), l.a) ELSE R(e, l.a)

parseSubImports(p, selective) ==
    IF p.ahead = "TK_STAR"
    THEN LET q == consumeToken(p)
             star == N("GenName", <<q.last>>, <<>>)
         IN  IF selective
             THEN R(q, create(N("ImportMemberDecl", <<0>>, <<star, Null>>)))
             ELSE R(failMatch(q, FALSE), NoList)
    ELSE LET wantParen == p.ahead = "TK_LPAREN"
             o == IF wantParen THEN consumeToken(p) ELSE p
             l == invoke("parseSubImportsLoop", <<o, NoList, selective>>)
             e == IF wantParen THEN matchOrSkipTo(l.p, "TK_RPAREN") ELSE l.p
         IN  IF l.a = NoList THEN R(failMatch(e, TRUE), l.a) ELSE R(e, l.a)

\* parseImportStmt(), case TK_FROM: the loop over the leading dots; the
\* result tells whether a name is still wanted (no dot was seen).
parseFromDots(p) ==
    IF p.ahead \in {"TK_DOT", "TK_DOT_DOT_DOT"}
    THEN [p |-> invoke("parseFromDots", consumeToken(p)).p, b |-> FALSE]
    ELSE [p |-> p, b |-> TRUE]

\* parseImportStmt(): ImportClauseDecl [keyLoc, hintLoc] (modules)
parseImportStmt(p) ==
    CASE p.ahead = "TK_IMPORT" ->
            LET k == consumeToken(p)
                l == invoke("parseImportLoop", <<k, NoList>>)
                e == IF l.a = NoList THEN failMatch(l.p, TRUE) ELSE l.p
            IN  R(e, DeclStmt(N("ImportClauseDecl", <<k.last, 0>>, <<l.a>>)))
      [] p.ahead = "TK_FROM" ->
            LET k == consumeToken(p)
                d == invoke("parseFromDots", k)
                wantName == d.b
            IN  IF wantName \/ isNameAhead(d.p)
                THEN LET name == invoke("parseDottedName", d.p)
                         i == match(name.p, "TK_IMPORT")
                         members == invoke("parseSubImports", <<i.p, TRUE>>)
                         module == ImportModule(0, i.p.last, name.a, Null,
                                                members.a)
                     IN  R(members.p,
                           DeclStmt(N("ImportClauseDecl", <<k.last, 0>>,
                                      <<create(module)>>)))
                ELSE LET i == match(d.p, "TK_IMPORT")
                         modules == invoke("parseSubImports", <<i.p, FALSE>>)
                     IN  R(modules.p,
                           DeclStmt(N("ImportClauseDecl",
                                      <<k.last, i.p.last>>, <<modules.a>>)))
      [] OTHER -> R(p, Null)

\* parseGlobalStmt(): the do-while loop.  VarDecl (name)
parseGlobalLoop(p, decls) ==
    LET name == invoke("parseName", p)
        decl == N("VarDecl", <<>>, <<name.a>>)
        c == maybeConsume(name.p, "TK_COMMA")
    IN  IF c.b THEN invoke("parseGlobalLoop", <<c.p, addToList(decls, decl)>>)
        ELSE R(c.p, addToList(decls, decl))

\* parseGlobalStmt(): VarGroupDecl [keyLoc] (decls)
parseGlobalStmt(p) ==
    IF p.ahead # "TK_GLOBAL"
    THEN R(p, Null)
    ELSE LET k == match(p, "TK_GLOBAL")
             l == invoke("parseGlobalLoop", <<k.p, NoList>>)
             e == IF l.a = NoList THEN failMatch(l.p, TRUE) ELSE l.p
         IN  R(e, DeclStmt(N("VarGroupDecl", <<k.p.last>>, <<l.a>>)))

\* parseExecStmt(): EvalStmt [keyLoc] (expr)
parseExecStmt(p) ==
    IF p.ahead # "TK_EXEC"
    THEN R(p, Null)
    ELSE LET k == match(p, "TK_EXEC")
             expr == invoke("parseExpr", k.p)
             i == maybeConsume(expr.p, "TK_IN")
             t1 == IF i.b THEN invoke("parseTest", i.p) ELSE R(i.p, Null)
             c == IF i.b THEN maybeConsume(t1.p, "TK_COMMA")
                  ELSE [p |-> t1.p, b |-> FALSE]
             t2 == IF c.b THEN invoke("parseTest", c.p) ELSE R(c.p, Null)
         IN  R(t2.p, N("EvalStmt", <<k.p.last>>, <<expr.a>>))

\* parseAssertStmt(): AssertExpr [keyLoc] (expr)
parseAssertStmt(p) ==
    IF p.ahead # "TK_ASSERT"
    THEN R(p, Null)
    ELSE LET k == match(p, "TK_ASSERT")
             expr == invoke("parseTest", k.p)
             c == maybeConsume(expr.p, "TK_COMMA")
             msg == IF c.b THEN invoke("parseTest", c.p) ELSE R(c.p, Null)
         IN  R(msg.p, ExprStmt(addToList(NoList,
                                N("AssertExpr", <<k.p.last>>, <<expr.a>>))))

parseSmallStmt(p) ==
    CASE p.ahead = "TK_PRINT" -> parsePrintStmt(p)
      [] p.ahead = "TK_DELETE" -> parseDelStmt(p)
      [] p.ahead = "TK_PASS" -> parsePassStmt(p)
      [] p.ahead \in {"TK_IMPORT", "TK_FROM"} -> parseImportStmt(p)
      [] p.ahead = "TK_GLOBAL" -> parseGlobalStmt(p)
      [] p.ahead = "TK_EXEC" -> parseExecStmt(p)
      [] p.ahead = "TK_ASSERT" -> parseAssertStmt(p)
      [] p.ahead \in {"TK_BREAK", "TK_CONTINUE", "TK_RETURN", "TK_THROW",
                      "TK_YIELD"} -> parseFlowStmt(p)
      [] OTHER -> parseExprStmt(p)

\* parseIfElseIfStmt(), after the suite of the condition was parsed.
parseIfElseIfStmtElse(ifLoc, expr, then) ==
    CASE then.p.ahead = "TK_ELIF" ->
            LET q == consumeToken(then.p)
                r == invoke("parseIfElseIfStmt", q)
            IN  R(r.p, N("IfStmt", <<ifLoc, q.last>>, <<expr, then.a, r.a>>))
      [] then.p.ahead = "TK_ELSE" ->
            LET q == consumeToken(then.p)
                r == invoke("parseSuite", match(q, "TK_COLON").p)
            IN  R(r.p, N("IfStmt", <<ifLoc, q.last>>, <<expr, then.a, r.a>>))
      [] OTHER -> R(then.p, N("IfStmt", <<ifLoc, 0>>, <<expr, then.a, Null>>))

\* parseIfElseIfStmt(), after the condition was parsed.
parseIfElseIfStmtThen(ifLoc, expr) ==
    parseIfElseIfStmtElse(ifLoc, expr.a,
                          invoke("parseSuite", match(expr.p, "TK_COLON").p))

\* parseIfElseIfStmt(): IfStmt [ifLoc, elseLoc] (expr, then, notThen);
\* 'elif' is parsed as 'else' 'if'.
parseIfElseIfStmt(p) == parseIfElseIfStmtThen(p.last, invoke("parseTest", p))

parseIfStmt(p) ==
    IF p.ahead # "TK_IF"
    THEN R(p, Null)
    ELSE parseIfElseIfStmt(match(p, "TK_IF").p)

\* The trailing "else : suite" of while and for, parsed and dropped.
parseElseDropped(p) ==
    LET el == maybeConsume(p, "TK_ELSE")
    IN  IF el.b THEN invoke("parseSuite", match(el.p, "TK_COLON").p).p ELSE el.p

\* parseWhileStmt(): WhileStmt [whileLoc] (expr, stmt)
parseWhileStmt(p) ==
    IF p.ahead # "TK_WHILE"
    THEN R(p, Null)
    ELSE LET k == match(p, "TK_WHILE")
             expr == invoke("parseTest", k.p)
             c == match(expr.p, "TK_COLON")
             stmt == invoke("parseSuite", c.p)
         IN  R(invoke("parseElseDropped", stmt.p),
               N("WhileStmt", <<k.p.last>>, <<expr.a, stmt.a>>))

\* The names of the elements of a list that are identifier expressions,
\* each wrapped in a declaration of the given kind.
IdentDecls(list, kind) ==
    LET ids == SelectSeq(list.c, LAMBDA e : e.k = "IdentExpr")
    IN  ListOf([i \in 1..Len(ids) |-> N(kind, <<>>, <<ids[i].c[1]>>)])

\* parseForStmt(): ForeachStmt (decl, expr, stmt); the iteration over
\* *exprs dereferences the list parseExprList returned.
parseForStmt(p) ==
    IF p.ahead # "TK_FOR"
    THEN R(p, Null)
    ELSE LET k == match(p, "TK_FOR")
             exprs == invoke("parseExprList", k.p)
             group == N("VarGroupDecl", <<0>>, <<IdentDecls(exprs.a, "VarDecl")>>)
             i == match(derefList(exprs.p, exprs.a), "TK_IN")
             test == invoke("parseTestList", i.p)
             expr == IF test.a # NoList THEN Head(test.a.c) ELSE Null
             c == match(test.p, "TK_COLON")
             stmt == invoke("parseSuite", c.p)
         IN  R(invoke("parseElseDropped", stmt.p),
               N("ForeachStmt", <<>>, <<group, expr, stmt.a>>))

\* The clause loop of parseTryStmt() reporting the missing except without
\* consuming the token ahead.
parseTryStmtLoopStay(p, trie, seenElse) ==
    CASE p.ahead = "TK_CATCH" ->
            LET q == consumeToken(p)
                test == invoke("parseTest", q)
                spec == IF test.a.k = "IdentExpr"
                        THEN N("NamedSpec", <<>>, <<test.a.c[1]>>)
                        ELSE Null
                m1 == maybeConsume(test.p, "TK_AS")
                m == IF m1.b THEN m1 ELSE maybeConsume(test.p, "TK_COMMA")
                ident == invoke("parseTest", m.p)
                bound == IF ~m.b THEN R(m.p, NoList)
                         ELSE IF ident.a = Null THEN R(ident.p, NoList)
                         ELSE IF ident.a.k # "IdentExpr"
                         THEN R(trackReport(ident.p, "NameRequired",
                                            ident.p.last), NoList)
                         ELSE R(ident.p, create(N("ParamDecl", <<>>,
                                                  <<ident.a.c[1]>>)))
                decl == IF ~isTestAhead(q) THEN R(q, Null)
                        ELSE IF test.a = Null THEN R(test.p, Null)
                        ELSE R(bound.p, N("ParamGroupDecl", <<>>,
                                          <<spec, bound.a>>))
                c == match(decl.p, "TK_COLON")
                stmt == invoke("parseSuite", c.p)
                catche == N("CatchClauseStmt", <<q.last>>, <<decl.a, stmt.a>>)
            IN  IF stmt.p.pos = p.pos
                THEN R([stmt.p EXCEPT !.g.stuck = TRUE], trie)
                ELSE invoke("parseTryStmtLoop", <<stmt.p,
                                      SetC(trie, 2, addToList(trie.c[2], catche)),
                                      seenElse>>)
      [] p.ahead = "TK_FINALLY" ->
            LET q == consumeToken(p)
                c == match(q, "TK_COLON")
                stmt == invoke("parseSuite", c.p)
            IN  R(stmt.p, SetC(trie, 3, N("FinallyClauseStmt", <<q.last>>,
                                          <<stmt.a>>)))
      [] p.ahead = "TK_ELSE" ->
            LET q == IF trie.c[2] = NoList \/ seenElse
                     THEN failMatch(p, TRUE)
                     ELSE invoke("parseSuite", match(consumeToken(p), "TK_COLON").p).p
                seen == ~(trie.c[2] = NoList \/ seenElse) \/ seenElse
            IN  IF q.pos = p.pos
                THEN R([q EXCEPT !.g.stuck = TRUE], trie)
                ELSE invoke("parseTryStmtLoop", <<q, trie, seen>>)
      [] OTHER ->
            IF trie.c[2] = NoList THEN R(failMatch(p, FALSE), trie)
            ELSE R(p, trie)

\* The clause loop of parseTryStmt() making no report for a name that is
\* not an identifier.
parseTryStmtLoopQuiet(p, trie, seenElse) ==
    CASE p.ahead = "TK_CATCH" ->
            LET q == consumeToken(p)
                test == invoke("parseTest", q)
                spec == IF test.a.k = "IdentExpr"
                        THEN N("NamedSpec", <<>>, <<test.a.c[1]>>)
                        ELSE Null
                m1 == maybeConsume(test.p, "TK_AS")
                m == IF m1.b THEN m1 ELSE maybeConsume(test.p, "TK_COMMA")
                ident == invoke("parseTest", m.p)
                bound == IF ~m.b THEN R(m.p, NoList)
                         ELSE IF ident.a = Null THEN R(ident.p, NoList)
                         ELSE IF ident.a.k # "IdentExpr"
                         THEN R(ident.p, NoList)
                         ELSE R(ident.p, create(N("ParamDecl", <<>>,
                                                  <<ident.a.c[1]>>)))
                decl == IF ~isTestAhead(q) THEN R(q, Null)
                        ELSE IF test.a = Null THEN R(test.p, Null)
                        ELSE R(bound.p, N("ParamGroupDecl", <<>>,
                                          <<spec, bound.a>>))
                c == match(decl.p, "TK_COLON")
                stmt == invoke("parseSuite", c.p)
                catche == N("CatchClauseStmt", <<q.last>>, <<decl.a, stmt.a>>)
            IN  IF stmt.p.pos = p.pos
                THEN R([stmt.p EXCEPT !.g.stuck = TRUE], trie)
                ELSE invoke("parseTryStmtLoop", <<stmt.p,
                                      SetC(trie, 2, addToList(trie.c[2], catche)),
                                      seenElse>>)
      [] p.ahead = "TK_FINALLY" ->
            LET q == consumeToken(p)
                c == match(q, "TK_COLON")
                stmt == invoke("parseSuite", c.p)
            IN  R(stmt.p, SetC(trie, 3, N("FinallyClauseStmt", <<q.last>>,
                                          <<stmt.a>>)))
      [] p.ahead = "TK_ELSE" ->
            LET q == IF trie.c[2] = NoList \/ seenElse
                     THEN failMatch(p, TRUE)
                     ELSE invoke("parseSuite", match(consumeToken(p), "TK_COLON").p).p
                seen == ~(trie.c[2] = NoList \/ seenElse) \/ seenElse
            IN  IF q.pos = p.pos
                THEN R([q EXCEPT !.g.stuck = TRUE], trie)
                ELSE invoke("parseTryStmtLoop", <<q, trie, seen>>)
      [] OTHER ->
            IF trie.c[2] = NoList THEN R(failMatch(p, TRUE), trie)
            ELSE R(p, trie)

\* parseTryStmt(): the clause loop.  TryStmt [keyLoc] (stmt, catchs, final),
\* CatchClauseStmt [keyLoc] (decl, stmt), FinallyClauseStmt [keyLoc] (stmt),
\* ParamGroupDecl (spec, decls), NamedSpec (name), ParamDecl (name)
parseTryStmtLoop(p, trie, seenElse) ==
    CASE p.ahead = "TK_CATCH" ->
            LET q == consumeToken(p)
                test == invoke("parseTest", q)
                spec == IF test.a.k = "IdentExpr"
                        THEN N("NamedSpec", <<>>, <<test.a.c[1]>>)
                        ELSE Null
                m1 == maybeConsume(test.p, "TK_AS")
                m == IF m1.b THEN m1 ELSE maybeConsume(test.p, "TK_COMMA")
                ident == invoke("parseTest", m.p)
                bound == IF ~m.b THEN R(m.p, NoList)
                         ELSE IF ident.a = Null THEN R(ident.p, NoList)
                         ELSE IF ident.a.k # "IdentExpr"
                         THEN R(trackReport(ident.p, "NameRequired",
                                            ident.p.last), NoList)
                         ELSE R(ident.p, create(N("ParamDecl", <<>>,
                                                  <<ident.a.c[1]>>)))
                decl == IF ~isTestAhead(q) THEN R(q, Null)
                        ELSE IF test.a = Null THEN R(test.p, Null)
                        ELSE R(bound.p, N("ParamGroupDecl", <<>>,
                                          <<spec, bound.a>>))
                c == match(decl.p, "TK_COLON")
                stmt == invoke("parseSuite", c.p)
                catche == N("CatchClauseStmt", <<q.last>>, <<decl.a, stmt.a>>)
            IN  IF stmt.p.pos = p.pos
                THEN R([stmt.p EXCEPT !.g.stuck = TRUE], trie)
                ELSE invoke("parseTryStmtLoop", <<stmt.p,
                                      SetC(trie, 2, addToList(trie.c[2], catche)),
                                      seenElse>>)
      [] p.ahead = "TK_FINALLY" ->
            LET q == consumeToken(p)
                c == match(q, "TK_COLON")
                stmt == invoke("parseSuite", c.p)
            IN  R(stmt.p, SetC(trie, 3, N("FinallyClauseStmt", <<q.last>>,
                                          <<stmt.a>>)))
      [] p.ahead = "TK_ELSE" ->
            LET q == IF trie.c[2] = NoList \/ seenElse
                     THEN failMatch(p, TRUE)
                     ELSE invoke("parseSuite", match(consumeToken(p), "TK_COLON").p).p
                seen == ~(trie.c[2] = NoList \/ seenElse) \/ seenElse
            IN  IF q.pos = p.pos
                THEN R([q EXCEPT !.g.stuck = TRUE], trie)
                ELSE invoke("parseTryStmtLoop", <<q, trie, seen>>)
      [] OTHER ->
            IF trie.c[2] = NoList THEN R(failMatch(p, TRUE), trie)
            ELSE R(p, trie)

\* parseTryStmt() entering the clause loop with seenElse set.
parseTryStmtSeen(p) ==
    IF p.ahead # "TK_TRY"
    THEN R(p, Null)
    ELSE LET k == match(p, "TK_TRY")
             c == match(k.p, "TK_COLON")
             stmt == invoke("parseSuite", c.p)
         IN  invoke("parseTryStmtLoop", <<stmt.p,
                              N("TryStmt", <<k.p.last>>, <<stmt.a, NoList, Null>>),
                              TRUE>>)

parseTryStmt(p) ==
    IF p.ahead # "TK_TRY"
    THEN R(p, Null)
    ELSE LET k == match(p, "TK_TRY")
             c == match(k.p, "TK_COLON")
             stmt == invoke("parseSuite", c.p)
         IN  invoke("parseTryStmtLoop", <<stmt.p,
                              N("TryStmt", <<k.p.last>>, <<stmt.a, NoList, Null>>),
                              FALSE>>)

\* parseWithItem(): test ['as' expr], the latter an AssignExpr
parseWithItem(p) ==
    LET test == invoke("parseTest", p)
        m == maybeConsume(test.p, "TK_AS")
        expr == invoke("parseExpr", m.p)
    IN  IF m.b
        THEN R(expr.p, N("AssignExpr", <<m.p.last>>,
                         <<addToList(NoList, test.a), addToList(NoList, expr.a)>>))
        ELSE R(m.p, test.a)

\* parseWithStmt(): WithStmt [keyLoc] (exprs, stmt)
parseWithStmt(p) ==
    IF p.ahead # "TK_WITH"
    THEN R(p, Null)
    ELSE LET k == match(p, "TK_WITH")
             l == parseList(k.p, "TK_COMMA", "isTestAhead", "parseWithItem",
                            FALSE)
             e == IF l.a = NoList THEN failMatch(l.p, TRUE) ELSE l.p
             c == match(e, "TK_COLON")
             stmt == invoke("parseSuite", c.p)
         IN  R(stmt.p, N("WithStmt", <<k.p.last>>, <<l.a, stmt.a>>))

\* parseFuncDef(): DeclStmt (FuncDecl (name, stmt, spec)), with
\* FuncSpec [keyLoc, lDelimLoc] (param)
parseFuncDef(p) ==
    IF p.ahead # "TK_FUNC"
    THEN R(p, Null)
    ELSE LET k == match(p, "TK_FUNC")
             name == invoke("parseName", k.p)
             param == invoke("parseVarArgsList", <<name.p, TRUE>>)
             c == match(param.p, "TK_COLON")
             stmt == invoke("parseSuite", c.p)
             spec == N("FuncSpec", <<k.p.last, c.p.last>>, <<param.a>>)
         IN  R(stmt.p, DeclStmt(N("FuncDecl", <<>>, <<name.a, stmt.a, spec>>)))

\* parseClassDef(): DeclStmt (RecordDecl (name, spec)), with
\* RecordSpec [keyLoc, lDelimLoc] (bases, proto); the iteration over *bases
\* dereferences the list parseTestList returned.
parseClassDef(p) ==
    IF p.ahead # "TK_CLASS"
    THEN R(p, Null)
    ELSE LET k == match(p, "TK_CLASS")
             name == invoke("parseName", k.p)
             l == maybeConsume(name.p, "TK_LPAREN")
             tests == invoke("parseTestList", l.p)
             bases == IF l.b THEN IdentDecls(tests.a, "BaseDecl") ELSE NoList
             e == IF l.b
                  THEN matchOrSkipTo(derefList(tests.p, tests.a), "TK_RPAREN")
                  ELSE l.p
             c == match(e, "TK_COLON")
             proto == invoke("parseSuite", c.p)
             spec == N("RecordSpec", <<k.p.last, c.p.last>>, <<bases, proto.a>>)
         IN  R(proto.p, DeclStmt(N("RecordDecl", <<>>, <<name.a, spec>>)))

\* parseDecorated(): the do-while loop over the decorator lines, which are
\* parsed and dropped.
parseDecoratedLoop(p) ==
    LET name == invoke("parseDottedName", p)
        l == maybeConsume(name.p, "TK_LPAREN")
        e == IF l.b
             THEN matchOrSkipTo(invoke("parseArgList", l.p).p, "TK_RPAREN")
             ELSE l.p
        n == matchOrSkipTo(e, "TK_NEWLINE")
        a == maybeConsume(n, "TK_AT_SYMBOL")
    IN  IF a.b THEN invoke("parseDecoratedLoop", a.p) ELSE a.p

parseDecorated(p) ==
    IF p.ahead # "TK_AT_SYMBOL"
    THEN R(p, Null)
    ELSE LET q == invoke("parseDecoratedLoop", match(p, "TK_AT_SYMBOL").p)
         IN  CASE q.ahead = "TK_CLASS" -> invoke("parseClassDef", q)
               [] q.ahead = "TK_FUNC" -> invoke("parseFuncDef", q)
               [] OTHER -> R(failMatch(q, TRUE), Null)

\* parseSuiteLoop() ending the suite at a DEDENT it leaves ahead.
parseSuiteLoopKeep(stmt, from, block) ==
    CASE stmt.p.pos = from ->
            R([stmt.p EXCEPT !.g.stuck = TRUE], block)
      [] stmt.p.ahead = "TK_DEDENT" ->
            R(stmt.p, addToList(block, stmt.a))
      [] stmt.p.ahead = "TK_EOP" ->
            R([stmt.p EXCEPT !.g.sopen = @ + 1], addToList(block, stmt.a))
      [] OTHER ->
            parseSuiteLoop(invoke("parseStmt", stmt.p), stmt.p.pos,
                           addToList(block, stmt.a))

\* parseSuite(): the loop "while (!maybeConsume(TK_DEDENT) && ahead_ !=
\* TK_EOP)" over the statements of the block; stmt is what the last call of
\* parseStmt returned, made at the position from, block what was collected
\* before it.
parseSuiteLoop(stmt, from, block) ==
    CASE stmt.p.pos = from ->
            R([stmt.p EXCEPT !.g.stuck = TRUE], block)
      [] stmt.p.ahead = "TK_DEDENT" ->
            R([consumeToken(stmt.p) EXCEPT !.g.sded = @ + 1],
              addToList(block, stmt.a))
      [] stmt.p.ahead = "TK_EOP" ->
            R([stmt.p EXCEPT !.g.sopen = @ + 1], addToList(block, stmt.a))
      [] OTHER ->
            parseSuiteLoop(invoke("parseStmt", stmt.p), stmt.p.pos,
                           addToList(block, stmt.a))

\* The block a suite opens: the ghost counters tell whether match(TK_INDENT)
\* found the INDENT.
parseSuiteIndent(i) ==
    IF i.b THEN [i.p EXCEPT !.g.sind = @ + 1]
    ELSE [i.p EXCEPT !.g.sbad = @ + 1]

\* parseSuite(), the block made of what the loop collected.  BlockStmt (stmts)
parseSuiteBlock(l) == R(l.p, N("BlockStmt", <<>>, <<l.a>>))

\* parseSuite(): suite: simple_stmt | NEWLINE INDENT stmt+ DEDENT
parseSuite(p) ==
    IF p.ahead # "TK_NEWLINE"
    THEN parseSimpleStmt(p)
    ELSE parseSuiteBlock(
             parseSuiteLoop(
                 invoke("parseStmt",
                        parseSuiteIndent(match(consumeToken(p), "TK_INDENT"))),
                 -1, NoList))

\* A call of a parse function, direct or through a pointer to member
\* function (this->*parseFunc)(): f names the function called.
invoke(f, p) ==
    CASE f = "parseName" -> parseName(p)
      [] f = "parseExprList" -> parseExprList(p)
      [] f = "parseTestList" -> parseTestList(p)
      [] f = "parseTestList1" -> parseTestList1(p)
      [] f = "parseTestListSafe" -> parseTestListSafe(p)
      [] f = "parseSubscriptList" -> parseSubscriptList(p)
      [] f = "parseDottedName" -> parseDottedName(p)
      [] f = "parseTest" -> parseTest(p)
      [] f = "parseOldTest" -> parseOldTest(p)
      [] f = "parseOrTest" -> parseOrTest(p)
      [] f = "parseAndTest" -> parseAndTest(p)
      [] f = "parseNotTest" -> parseNotTest(p)
      [] f = "parseComparison" -> parseComparison(p)
      [] f = "parseExpr" -> parseExpr(p)
      [] f = "parseFactor" -> parseFactor(p)
      [] f = "parsePower" -> parsePower(p)
      [] f = "parseAtom" -> parseAtom(p)
      [] f = "parseStrLit" -> parseStrLit(p)
      [] f = "parseArg" -> parseArg(p)
      [] f = "parseUnpack" -> parseUnpack(p)
      [] f = "parseArgList" -> parseArgList(p)
      [] f = "parseSubscript" -> parseSubscript(p)
      [] f = "parseDictOrSetMaker" -> parseDictOrSetMaker(p)
      [] f = "parseListMaker" -> parseListMaker(p)
      [] f = "parseWrappedOrTuple" -> parseWrappedOrTuple(p)
      [] f = "parseYieldExpr" -> parseYieldExpr(p)
      [] f = "parseLambdaDef" -> parseLambdaDef(p)
      [] f = "parseOldLambdaDef" -> parseOldLambdaDef(p)
      [] f = "parseStmt" -> parseStmt(p)
      [] f = "parseSimpleStmt" -> parseSimpleStmt(p)
      [] f = "parseExprStmt" -> parseExprStmt(p)
      [] f = "parsePrintStmt" -> parsePrintStmt(p)
      [] f = "parseDelStmt" -> parseDelStmt(p)
      [] f = "parsePassStmt" -> parsePassStmt(p)
      [] f = "parseContinueStmt" -> parseContinueStmt(p)
      [] f = "parseBreakStmt" -> parseBreakStmt(p)
      [] f = "parseYieldStmt" -> parseYieldStmt(p)
      [] f = "parseRaiseStmt" -> parseRaiseStmt(p)
      [] f = "parseReturnStmt" -> parseReturnStmt(p)
      [] f = "parseFlowStmt" -> parseFlowStmt(p)
      [] f = "parseFromDots" -> parseFromDots(p)
      [] f = "parseImportStmt" -> parseImportStmt(p)
      [] f = "parseGlobalStmt" -> parseGlobalStmt(p)
      [] f = "parseExecStmt" -> parseExecStmt(p)
      [] f = "parseAssertStmt" -> parseAssertStmt(p)
      [] f = "parseSmallStmt" -> parseSmallStmt(p)
      [] f = "parseIfElseIfStmt" -> parseIfElseIfStmt(p)
      [] f = "parseIfStmt" -> parseIfStmt(p)
      [] f = "parseElseDropped" -> parseElseDropped(p)
      [] f = "parseWhileStmt" -> parseWhileStmt(p)
      [] f = "parseForStmt" -> parseForStmt(p)
      [] f = "parseTryStmt" -> parseTryStmt(p)
      [] f = "parseWithItem" -> parseWithItem(p)
      [] f = "parseWithStmt" -> parseWithStmt(p)
      [] f = "parseFuncDef" -> parseFuncDef(p)
      [] f = "parseClassDef" -> parseClassDef(p)
      [] f = "parseDecoratedLoop" -> parseDecoratedLoop(p)
      [] f = "parseDecorated" -> parseDecorated(p)
      [] f = "parseSuite" -> parseSuite(p)
      [] f = "completeUnaryExpr" -> completeUnaryExpr(p[1], p[2], p[3])
      [] f = "completeBinaryExpr" -> completeBinaryExpr(p[1], p[2], p[3], p[4])
      [] f = "completeAssignExpr" -> completeAssignExpr(p[1], p[2], p[3])
      [] f = "parseBinaryExpr" -> parseBinaryExpr(p[1], p[2])
      [] f = "parseArgListTail" -> parseArgListTail(p[1], p[2], p[3])
      [] f = "parseArgListStar" -> parseArgListStar(p[1], p[2])
      [] f = "parseCompFor" -> parseCompFor(p[1], p[2])
      [] f = "parseListFor" -> parseListFor(p[1], p[2])
      [] f = "parseListOrCompIf" -> parseListOrCompIf(p[1], p[2], p[3])
      [] f = "parseCompIf" -> parseCompIf(p[1], p[2])
      [] f = "parseListIf" -> parseListIf(p[1], p[2])
      [] f = "completeListCompre" -> completeListCompre(p[1], p[2], p[3])
      [] f = "completeSubrangeExpr" -> completeSubrangeExpr(p[1], p[2])
      [] f = "parseDictLoop" -> parseDictLoop(p[1], p[2])
      [] f = "completeParam" -> completeParam(p[1], p[2])
      [] f = "parseVarArgsListLoop" -> parseVarArgsListLoop(p[1], p[2], p[3])
      [] f = "parseVarArgsList" -> parseVarArgsList(p[1], p[2])
      [] f = "parseLambdaCore" -> parseLambdaCore(p[1], p[2])
      [] f = "parseImportLoop" -> parseImportLoop(p[1], p[2])
      [] f = "parseSubImportsLoop" -> parseSubImportsLoop(p[1], p[2], p[3])
      [] f = "parseSubImports" -> parseSubImports(p[1], p[2])
      [] f = "parseGlobalLoop" -> parseGlobalLoop(p[1], p[2])
      [] f = "parseTryStmtLoop" -> parseTryStmtLoop(p[1], p[2], p[3])

-----------------------------------------------------------------------------
(* The lexer's cursor and the shared sub-lexers (Parsing/Lexer.cpp).  A     *)
(* character is a string; NUL is the character 0, which peekChar() also     *)
(* returns as its sentinel.  A lexer state is [buff, curr, ch, diags,        *)
(* failed]: the buffer, the cursor as an offset from the start of the       *)
(* buffer, the caller's character the sub-lexers take by reference, the     *)
(* reports, and whether an assertion of consumeChar() failed in the call.   *)

MaxBuf == 2

MaxDigits == 2

MaxStr == 3

NUL == "NUL"

\* The characters of the buffers: digits of the three bases, the prefix and
\* exponent letters, a sign, a dot, a quote, the backslash, a newline,
\* HIGH, a character that is neither a control nor a printable one, and
\* NUL.
Chars == {"0", "1", "7", "8", "x", "o", "b", "e", ".", "+", "'", "\\",
          "\n", "HIGH", NUL}

isdigit(c) == c \in {"0", "1", "7", "8"}

isxdigit(c) == c \in {"0", "1", "7", "8", "b", "e"}

iscntrl(c) == c \in {"\n", NUL}

isprint(c) == c \in Chars \ {"\n", "HIGH", NUL}

\* The Syntax object of the language: prefixes, exponent, identifiers.
isOctalPrefix(c) == c = "o"

isHexPrefix(c) == c = "x"

isBinPrefix(c) == c = "b"

isExponent(c) == c = "e"

isIdentFirstChar(c) == c \in {"x", "o", "b", "e"}

isIdentChar(c) == isIdentFirstChar(c) \/ isdigit(c)

classifyIdent(c, from) == "TK_IDENTIFIER"

\* Lexer::setBuffer(buff, length)
setBuffer(c, buff) == [c EXCEPT !.buff = buff, !.curr = 0]

\* eof_ as an offset from buff_.
eof(c) == Len(c.buff)

\* Lexer::peekChar(dist): the offset it reads (-1 when it reads nothing)
\* and the character it returns.
peekRead(c, dist) == IF c.curr + dist >= eof(c) THEN -1 ELSE c.curr + dist

peekChar(c, dist) ==
    IF c.curr + dist >= eof(c) THEN NUL ELSE c.buff[c.curr + dist + 1]

\* consumeChar(dist) without its assertion.
consumeCharUnchecked(c, dist) == [c EXCEPT !.curr = @ + 1 + dist]

\* Lexer::consumeChar(dist): UAISO_ASSERT(peekChar(dist), return) leaves
\* the cursor where it is when the character to consume is 0; the failed
\* assertion is recorded.
consumeChar(c, dist) ==
    IF peekChar(c, dist) = NUL
    THEN [c EXCEPT !.failed = TRUE]
    ELSE [c EXCEPT !.curr = @ + 1 + dist]

\* Lexer::consumeCharPeekNext(dist), assigned to ch by every caller.
consumeCharPeekNext(c, dist) ==
    LET d == consumeChar(c, dist)
    IN  [d EXCEPT !.ch = peekChar(d, 0)]

\* The result of a sub-lexer: the lexer state it leaves and its token.
T(c, tk) == [c |-> c, tk |-> tk]

\* Lexer::lexStrLit(ch, quote, mayBreak, syntax): the two error branches
\* are empty in the code (no report is made).
RECURSIVE lexStrLit(_, _, _)
lexStrLit(c, quote, mayBreak) ==
    IF c.ch # NUL /\ c.ch # quote
    THEN LET d == IF c.ch = "\\" THEN consumeCharPeekNext(c, 0) ELSE c
         IN  lexStrLit(consumeCharPeekNext(d, 0), quote, mayBreak)
    ELSE T(c, "TK_STRING_LITERAL")

\* Lexer::lexIdentOrKeyword(ch, syntax)
RECURSIVE lexIdentLoop(_)
lexIdentLoop(c) ==
    IF isIdentChar(c.ch) THEN lexIdentLoop(consumeCharPeekNext(c, 0)) ELSE c

lexIdentOrKeyword(c) ==
    IF ~isIdentFirstChar(c.ch)
    THEN T(c, "TK_INVALID")
    ELSE LET d == lexIdentLoop(consumeCharPeekNext(c, 0))
         IN  T(d, classifyIdent(d, c.curr))

\* Lexer::lexNumLit(ch, syntax): the digits after a base prefix; isDigit
\* tells the digits of the base.
RECURSIVE lexDigits(_, _)
lexDigits(c, digits) ==
    IF c.ch # NUL /\ c.ch \in digits
    THEN lexDigits(consumeCharPeekNext(c, 0), digits)
    ELSE c

\* c.ch is the prefix character.
lexPrefixed(c, digits) ==
    LET d == consumeCharPeekNext(c, 0)
    IN  IF d.ch \notin digits
        THEN T(d, "TK_INVALID")
        ELSE T(lexDigits(d, digits), "TK_INTEGER_LITERAL")

\* The digits of the three bases, among the characters of the buffers.
OctDigits == {"0", "1", "7"}

HexDigits == {c \in Chars : isxdigit(c)}

BinDigits == {"0", "1"}

\* Lexer::lexNumLit: the loop over digits, dots and exponents.
RECURSIVE lexNumLoop(_, _)
lexNumLoop(c, tk) ==
    IF c.ch # NUL /\ (isdigit(c.ch) \/ c.ch = "." \/ isExponent(c.ch))
    THEN LET d == consumeCharPeekNext(c, 0)
             e == IF isExponent(c.ch) /\ d.ch \in {"+", "-"}
                  THEN consumeCharPeekNext(d, 0)
                  ELSE d
         IN  lexNumLoop(e, IF isdigit(c.ch) THEN tk ELSE "TK_FLOAT_LITERAL")
    ELSE T(c, tk)

lexNumLit(c) ==
    IF ~(isdigit(c.ch) \/ c.ch = ".")
    THEN T(c, "TK_INVALID")
    ELSE IF c.ch = "0"
         THEN LET d == consumeCharPeekNext(c, 0)
              IN  CASE isOctalPrefix(d.ch) -> lexPrefixed(d, OctDigits)
                    [] isHexPrefix(d.ch) -> lexPrefixed(d, HexDigits)
                    [] isBinPrefix(d.ch) -> lexPrefixed(d, BinDigits)
                    [] OTHER -> lexNumLoop(d, "TK_INTEGER_LITERAL")
         ELSE lexNumLoop(c, "TK_INTEGER_LITERAL")

\* The lexer before any call, and a record of no call.
NoLexOp ==
    [op |-> "none", dist |-> 0, mayBreak |-> FALSE, curr0 |-> 0, ch0 |-> NUL,
     read |-> -1, ret |-> NUL, failed |-> FALSE]

LexerUnused ==
    /\ buff_ = <<>>
    /\ curr_ = 0
    /\ ch = NUL
    /\ lexDiags = <<>>
    /\ lexOp = NoLexOp

-----------------------------------------------------------------------------
(* The factory of the D language (D/DFactory.cpp).  An instance is a record *)
(* [cls, id]: its class and the serial number of the allocation that made   *)
(* it; a null unique_ptr is NullPtr.                                        *)

NullPtr == [cls |-> "null", id |-> 0]

\* "new cls": the instance the next allocation makes.
New(m, cls) == [cls |-> cls, id |-> Len(m) + 1]

NoFacOp == [op |-> "none", ret |-> NullPtr, before |-> <<>>]

FactoryUnused ==
    /\ made = <<>>
    /\ facOp = NoFacOp

\* No token primitive was called directly.
NoPrim ==
    [op |-> "none", tk |-> "TK_INVALID", consume |-> FALSE, b |-> FALSE,
     before |-> [pos |-> 0, ahead |-> "TK_INVALID", last |-> 0, diags |-> <<>>]]

-----------------------------------------------------------------------------
(* The inputs: token streams put together from statements *)

MaxFill == 1
MaxOps == 2
MaxCalls == 2

\* The binary operators of parseBinaryExpr.
BinaryOps ==
    {"TK_PIPE", "TK_CARET", "TK_AMPER", "TK_LESS_LESS", "TK_GREATER_GREATER",
     "TK_PLUS", "TK_MINUS", "TK_STAR", "TK_SLASH", "TK_SLASH_SLASH",
     "TK_PERCENT"}

\* Operands joined by up to n binary operators: a, a op1 b, a op1 b op2 c.
RECURSIVE OpChains(_)
OpChains(n) ==
    IF n = 0 THEN {<<"TK_IDENTIFIER">>}
    ELSE OpChains(n - 1)
         \cup {c \o <<op, "TK_IDENTIFIER">> :
                 c \in OpChains(n - 1), op \in BinaryOps}

ChainStmts == {c \o <<"TK_NEWLINE">> : c \in OpChains(MaxOps)}

\* Statements, well-formed and not, one line of tokens each.
Statements ==
    {<<"TK_PASS", "TK_NEWLINE">>,
     <<"TK_IDENTIFIER", "TK_LPAREN", "TK_IDENTIFIER", "TK_RPAREN", "TK_NEWLINE">>,
     <<"TK_IDENTIFIER", "TK_LPAREN", "TK_IDENTIFIER", "TK_NEWLINE">>,
     <<"TK_IDENTIFIER", "TK_LPAREN", "TK_NEWLINE">>,
     <<"TK_IDENTIFIER", "TK_LPAREN", "TK_IDENTIFIER", "TK_COMMA",
       "TK_IDENTIFIER", "TK_LPAREN", "TK_NEWLINE">>,
     <<"TK_LPAREN", "TK_IDENTIFIER", "TK_RPAREN", "TK_NEWLINE">>,
     <<"TK_LPAREN", "TK_LPAREN", "TK_IDENTIFIER", "TK_RPAREN", "TK_PLUS",
       "TK_INTEGER_LITERAL", "TK_RPAREN", "TK_NEWLINE">>,
     <<"TK_IDENTIFIER", "TK_SEMICOLON", "TK_PASS", "TK_NEWLINE">>,
     <<"TK_IF", "TK_IDENTIFIER", "TK_COLON", "TK_PASS", "TK_NEWLINE">>,
     <<"TK_IF", "TK_IDENTIFIER", "TK_COLON", "TK_NEWLINE", "TK_INDENT",
       "TK_PASS", "TK_NEWLINE", "TK_DEDENT">>,
     <<"TK_IF", "TK_IDENTIFIER", "TK_COLON", "TK_NEWLINE", "TK_INDENT",
       "TK_IF", "TK_IDENTIFIER", "TK_COLON", "TK_NEWLINE", "TK_INDENT",
       "TK_IDENTIFIER", "TK_NEWLINE", "TK_DEDENT", "TK_DEDENT">>,
     <<"TK_IF", "TK_IDENTIFIER", "TK_COLON", "TK_NEWLINE", "TK_PASS",
       "TK_NEWLINE">>,
     <<"TK_IF", "TK_IDENTIFIER", "TK_COLON", "TK_NEWLINE", "TK_INDENT",
       "TK_PASS", "TK_NEWLINE", "TK_DEDENT", "TK_ELSE", "TK_COLON",
       "TK_PASS", "TK_NEWLINE">>,
     <<"TK_WHILE", "TK_IDENTIFIER", "TK_COLON", "TK_PASS", "TK_NEWLINE">>,
     <<"TK_FOR", "TK_IDENTIFIER", "TK_IN", "TK_IDENTIFIER", "TK_COLON",
       "TK_PASS", "TK_NEWLINE">>,
     <<"TK_FOR", "TK_IN", "TK_IDENTIFIER", "TK_COLON", "TK_PASS",
       "TK_NEWLINE">>,
     <<"TK_CLASS", "TK_IDENTIFIER", "TK_LPAREN", "TK_IDENTIFIER", "TK_RPAREN",
       "TK_COLON", "TK_PASS", "TK_NEWLINE">>,
     <<"TK_CLASS", "TK_IDENTIFIER", "TK_LPAREN", "TK_RPAREN", "TK_COLON",
       "TK_PASS", "TK_NEWLINE">>,
     <<"TK_TRY", "TK_COLON", "TK_PASS", "TK_NEWLINE", "TK_CATCH",
       "TK_IDENTIFIER", "TK_COMMA", "TK_INTEGER_LITERAL", "TK_COLON",
       "TK_PASS", "TK_NEWLINE">>,
     <<"TK_TRY", "TK_COLON", "TK_PASS", "TK_NEWLINE", "TK_CATCH", "TK_COLON",
       "TK_PASS", "TK_NEWLINE", "TK_ELSE", "TK_COLON", "TK_PASS",
       "TK_NEWLINE", "TK_FINALLY", "TK_COLON", "TK_PASS", "TK_NEWLINE">>,
     <<"TK_TRY", "TK_COLON", "TK_PASS", "TK_NEWLINE">>,
     <<"TK_TRY", "TK_COLON", "TK_PASS", "TK_NEWLINE", "TK_ELSE", "TK_COLON",
       "TK_PASS", "TK_NEWLINE">>,
     <<"TK_TRY", "TK_COLON", "TK_PASS", "TK_NEWLINE", "TK_CATCH", "TK_COLON",
       "TK_PASS", "TK_NEWLINE", "TK_ELSE", "TK_COLON", "TK_PASS",
       "TK_NEWLINE", "TK_ELSE", "TK_COLON", "TK_PASS", "TK_NEWLINE">>,
     <<"TK_TRY", "TK_COLON", "TK_PASS", "TK_NEWLINE", "TK_FINALLY",
       "TK_COLON", "TK_PASS", "TK_NEWLINE", "TK_CATCH", "TK_COLON",
       "TK_PASS", "TK_NEWLINE">>,
     <<"TK_TRY", "TK_COLON", "TK_PASS", "TK_NEWLINE", "TK_CATCH",
       "TK_IDENTIFIER", "TK_AS", "TK_IDENTIFIER", "TK_COLON", "TK_PASS",
       "TK_NEWLINE", "TK_CATCH", "TK_IDENTIFIER", "TK_COMMA", "TK_IDENTIFIER",
       "TK_COLON", "TK_PASS", "TK_NEWLINE", "TK_CATCH", "TK_IDENTIFIER",
       "TK_AS", "TK_INTEGER_LITERAL", "TK_COLON", "TK_PASS", "TK_NEWLINE">>,
     <<"TK_IDENTIFIER", "TK_EQUAL", "TK_IDENTIFIER", "TK_EQUAL",
       "TK_IDENTIFIER", "TK_NEWLINE">>,
     <<"TK_IDENTIFIER", "TK_PLUS_EQUAL", "TK_IDENTIFIER", "TK_EQUAL",
       "TK_IDENTIFIER", "TK_NEWLINE">>,
     <<"TK_IDENTIFIER", "TK_EQUAL", "TK_IDENTIFIER", "TK_PLUS_EQUAL",
       "TK_IDENTIFIER", "TK_NEWLINE">>,
     <<"TK_IDENTIFIER", "TK_STAR_EQUAL", "TK_YIELD", "TK_IDENTIFIER",
       "TK_NEWLINE">>,
     <<"TK_FROM", "TK_DOT", "TK_DOT", "TK_IDENTIFIER", "TK_IMPORT",
       "TK_IDENTIFIER", "TK_AS", "TK_IDENTIFIER", "TK_COMMA", "TK_IDENTIFIER",
       "TK_NEWLINE">>,
     <<"TK_IMPORT", "TK_IDENTIFIER", "TK_DOT", "TK_IDENTIFIER", "TK_NEWLINE">>,
     <<"TK_IDENTIFIER", "TK_LBRACKET", "TK_IDENTIFIER", "TK_COMMA",
       "TK_IDENTIFIER", "TK_RBRACKET", "TK_NEWLINE">>,
     <<"TK_LPAREN", "TK_IDENTIFIER", "TK_FOR", "TK_IDENTIFIER", "TK_IN",
       "TK_IDENTIFIER", "TK_COMMA", "TK_IDENTIFIER", "TK_RPAREN",
       "TK_NEWLINE">>,
     <<"TK_LBRACE", "TK_IDENTIFIER", "TK_FOR", "TK_IDENTIFIER", "TK_IN",
       "TK_IDENTIFIER", "TK_COMMA", "TK_IDENTIFIER", "TK_RBRACE",
       "TK_NEWLINE">>,
     <<"TK_LBRACKET", "TK_IDENTIFIER", "TK_FOR", "TK_IDENTIFIER", "TK_IN",
       "TK_IDENTIFIER", "TK_COMMA", "TK_IDENTIFIER", "TK_RBRACKET",
       "TK_NEWLINE">>,
     <<"TK_FUNC", "TK_IDENTIFIER", "TK_LPAREN", "TK_IDENTIFIER", "TK_COMMA",
       "TK_STAR", "TK_IDENTIFIER", "TK_COMMA", "TK_STAR_STAR",
       "TK_IDENTIFIER", "TK_RPAREN", "TK_COLON", "TK_PASS", "TK_NEWLINE">>,
     <<"TK_FUNC", "TK_IDENTIFIER", "TK_LPAREN", "TK_STAR", "TK_IDENTIFIER",
       "TK_COMMA", "TK_IDENTIFIER", "TK_RPAREN", "TK_COLON", "TK_PASS",
       "TK_NEWLINE">>,
     <<"TK_FUNC", "TK_IDENTIFIER", "TK_LPAREN", "TK_STAR", "TK_IDENTIFIER",
       "TK_COMMA", "TK_STAR", "TK_IDENTIFIER", "TK_RPAREN", "TK_COLON",
       "TK_PASS", "TK_NEWLINE">>,
     <<"TK_FUNC", "TK_IDENTIFIER", "TK_LPAREN", "TK_STAR_STAR",
       "TK_IDENTIFIER", "TK_COMMA", "TK_IDENTIFIER", "TK_RPAREN", "TK_COLON",
       "TK_PASS", "TK_NEWLINE">>,
     <<"TK_LAMBDA", "TK_STAR", "TK_IDENTIFIER", "TK_COMMA", "TK_IDENTIFIER",
       "TK_COLON", "TK_IDENTIFIER", "TK_NEWLINE">>,
     <<"TK_FROM", "TK_DOT", "TK_IMPORT", "TK_STAR", "TK_NEWLINE">>,
     <<"TK_FROM", "TK_IDENTIFIER", "TK_IMPORT", "TK_STAR", "TK_NEWLINE">>,
     <<"TK_FROM", "TK_IDENTIFIER", "TK_IMPORT", "TK_LPAREN", "TK_IDENTIFIER",
       "TK_NEWLINE">>}

\* What may stand before and after a statement.
Fillers ==
    {<<"TK_NEWLINE">>, <<"TK_IDENTIFIER", "TK_NEWLINE">>,
     <<"TK_RPAREN", "TK_NEWLINE">>}

RECURSIVE FillSeqs(_)
FillSeqs(n) ==
    IF n = 0 THEN {<<>>}
    ELSE FillSeqs(n - 1) \cup {s \o f : s \in FillSeqs(n - 1), f \in Fillers}

Prefixes(S) == UNION {{SubSeq(s, 1, n) : n \in 0..Len(s)} : s \in S}

Inputs ==
    Prefixes({pre \o s \o post :
                pre \in FillSeqs(MaxFill), s \in Statements,
                post \in FillSeqs(1)})
    \cup ChainStmts
    \cup {[i \in 1..n |-> "TK_NEWLINE"] : n \in 0..(MaxFill + 1)}

-----------------------------------------------------------------------------
(* PyParser::parse as a state machine *)

NoGhost ==
    [ind |-> 0, ded |-> 0, sind |-> 0, sbad |-> 0, sded |-> 0, sopen |-> 0,
     openCalls |-> 0, ub |-> FALSE, stuck |-> FALSE, progress |-> TRUE]

\* The parser state the parse functions work on, from the variables.
Cur ==
    [pos |-> lexPos, ahead |-> ahead_, last |-> lastLoc_, diags |-> diags,
     g |-> [ghost EXCEPT !.ub = FALSE]]

Init ==
    /\ tokens \in Inputs
    /\ lexPos = 0
    /\ ahead_ = "TK_INVALID"
    /\ lastLoc_ = 0
    /\ diags = <<>>
    /\ astRoot = Null
    /\ takeAsts = 0
    /\ stmts = NoList
    /\ pc = "idle"
    /\ ret = FALSE
    /\ calls = 0
    /\ first = [ret |-> FALSE, ast |-> Null]
    /\ ghost = NoGhost
    /\ prim = NoPrim
    /\ LexerUnused
    /\ FactoryUnused

\* parse(lexer, context), up to the loop: a fresh lexer over the tokens and
\* a fresh context are bound, and the first consumeToken() is made.
ParseEnter ==
    /\ pc = "idle" \/ (pc = "done" /\ calls < MaxCalls)
    /\ LET q == consumeToken([pos |-> 0, ahead |-> ahead_, last |-> lastLoc_,
                              diags |-> <<>>, g |-> NoGhost])
       IN  /\ lexPos' = q.pos
           /\ ahead_' = q.ahead
           /\ lastLoc_' = q.last
           /\ diags' = q.diags
           /\ ghost' = q.g
    /\ astRoot' = Null
    /\ takeAsts' = 0
    /\ stmts' = NoList
    /\ pc' = "loop"
    /\ calls' = calls + 1
    /\ first' = IF calls = 1 THEN [ret |-> ret, ast |-> astRoot] ELSE first
    /\ UNCHANGED <<tokens, ret>>
    /\ UNCHANGED <<prim, lexVars, facVars>>

\* The loop of parse(): one statement is parsed and added to the list.
StmtParsed(r) ==
    /\ lexPos' = r.p.pos
    /\ ahead_' = r.p.ahead
    /\ lastLoc_' = r.p.last
    /\ diags' = r.p.diags
    /\ ghost' = [r.p.g EXCEPT !.ub = ghost.ub \/ r.p.g.ub,
                              !.progress = r.p.pos > lexPos]
    /\ stmts' = addToList(stmts, r.a)

\* The loop of parse() taking a blank NEWLINE for a statement.
ParseNewlineKept ==
    /\ pc = "loop"
    /\ ahead_ = "TK_NEWLINE"
    /\ StmtParsed(R(consumeToken(Cur), N("EmptyStmt", <<lexPos>>, <<>>)))
    /\ UNCHANGED <<tokens, astRoot, takeAsts, pc, ret, calls, first>>
    /\ UNCHANGED <<prim, lexVars, facVars>>

\* The loop of parse(): a blank NEWLINE is skipped.
ParseNewline ==
    /\ pc = "loop"
    /\ ahead_ # "TK_EOP"
    /\ ahead_ = "TK_NEWLINE"
    /\ LET q == consumeToken(Cur)
       IN  /\ lexPos' = q.pos
           /\ ahead_' = q.ahead
           /\ lastLoc_' = q.last
           /\ diags' = q.diags
           /\ ghost' = [q.g EXCEPT !.ub = ghost.ub,
                                   !.progress = q.pos > lexPos]
    /\ UNCHANGED <<tokens, astRoot, takeAsts, stmts, pc, ret, calls, first>>
    /\ UNCHANGED <<prim, lexVars, facVars>>

ParseStmt ==
    /\ pc = "loop"
    /\ ahead_ # "TK_EOP"
    /\ ahead_ # "TK_NEWLINE"
    /\ StmtParsed(invoke("parseStmt", Cur))
    /\ UNCHANGED <<tokens, astRoot, takeAsts, pc, ret, calls, first>>
    /\ UNCHANGED <<prim, lexVars, facVars>>

\* The loop of parse(): the statement being parsed dereferences a null
\* list, and the process is ended there.
ParseAbort ==
    /\ pc = "loop"
    /\ ahead_ # "TK_EOP"
    /\ ahead_ # "TK_NEWLINE"
    /\ invoke("parseStmt", Cur).p.g.ub
    /\ pc' = "aborted"
    /\ ghost' = [ghost EXCEPT !.ub = TRUE]
    /\ UNCHANGED <<tokens, lexPos, ahead_, lastLoc_, diags, astRoot, takeAsts,
                   stmts, ret, calls, first>>
    /\ UNCHANGED <<prim, lexVars, facVars>>

\* parse() handing over a Program whatever the list is.
ParseReturnAlways ==
    /\ pc = "loop"
    /\ ahead_ = "TK_EOP"
    /\ astRoot' = N("Program", <<>>, <<stmts>>)
    /\ takeAsts' = takeAsts + 1
    /\ ret' = TRUE
    /\ pc' = "done"
    /\ UNCHANGED <<tokens, lexPos, ahead_, lastLoc_, diags, stmts, calls,
                   first, ghost>>
    /\ UNCHANGED <<prim, lexVars, facVars>>

\* parse(), after the loop: the program is handed over, if there is one.
ParseReturn ==
    /\ pc = "loop"
    /\ ahead_ = "TK_EOP"
    /\ astRoot' = IF stmts # NoList THEN N("Program", <<>>, <<stmts>>)
                  ELSE astRoot
    /\ takeAsts' = IF stmts # NoList THEN takeAsts + 1 ELSE takeAsts
    /\ ret' = (stmts # NoList)
    /\ pc' = "done"
    /\ UNCHANGED <<tokens, lexPos, ahead_, lastLoc_, diags, stmts, calls,
                   first, ghost>>
    /\ UNCHANGED <<prim, lexVars, facVars>>

Next == ParseEnter \/ ParseNewline \/ ParseStmt \/ ParseAbort \/ ParseReturn

Spec == Init /\ [][Next]_vars

-----------------------------------------------------------------------------
(* What the claims speak of *)

\* The first parse() call on the parser object has returned.
FirstDone == pc = "done" /\ calls = 1

\* The Program root parse() hands over for a list of statements.
Program(list) == N("Program", <<>>, <<list>>)

\* The identifier expression made of the token at location i.
Ident(i) == N("IdentExpr", <<>>, <<N("SimpleName", <<i>>, <<>>)>>)

\* The node kind of a binary operator token.
OpKind(tk) == fetchPrecAhead([ahead |-> tk]).k

\* The level of a binary operator token in the precedence order
\* Or < Xor < And < Shift < Term < Factor.
OpPrec(tk) ==
    CASE tk = "TK_PIPE" -> Or
      [] tk = "TK_CARET" -> Xor
      [] tk = "TK_AMPER" -> And
      [] tk \in {"TK_LESS_LESS", "TK_GREATER_GREATER"} -> Shift
      [] tk \in {"TK_PLUS", "TK_MINUS"} -> Term
      [] OTHER -> Factor

\* The input is the statement "a op1 b op2 c".
IsChain2 ==
    /\ Len(tokens) = 6
    /\ tokens \in ChainStmts

\* The expression of the first statement, an expression statement.
FirstExpr == stmts.c[1].c[1].c[1]

\* op2(op1(a, b), c) and op1(a, op2(b, c)) for the input "a op1 b op2 c".
LeftTree ==
    N(OpKind(tokens[4]), <<4>>,
      <<N(OpKind(tokens[2]), <<2>>, <<Ident(1), Ident(3)>>), Ident(5)>>)

RightTree ==
    N(OpKind(tokens[2]), <<2>>,
      <<Ident(1), N(OpKind(tokens[4]), <<4>>, <<Ident(3), Ident(5)>>)>>)

\* The nodes of a tree, the root included.
RECURSIVE Nodes(_)
Nodes(n) == {n} \cup UNION {Nodes(n.c[i]) : i \in 1..Len(n.c)}

-----------------------------------------------------------------------------
(* C1 *)

\* C1: when parse() has returned, it returned true iff a statement was
\* accepted; then takeAst was called exactly once, with the Program root
\* holding the accepted statements; otherwise takeAst was never called.
C1_ParseResult ==
    FirstDone =>
        /\ ret = (stmts # NoList)
        /\ ret => takeAsts = 1 /\ astRoot = Program(stmts)
        /\ ~ret => takeAsts = 0 /\ astRoot = Null

C1_Witness ==
    /\ FirstDone /\ ret /\ takeAsts = 1
    /\ Len(stmts.c) = 2
    /\ diags # <<>>

(* C2 *)

\* C2: the parser never aborts and none of its loops runs without
\* consuming a token: parse() is never ended by a null dereference, and no
\* loop iteration leaves the lexer where it was.
C2_NeverAborts == pc # "aborted" /\ ~ghost.ub /\ ~ghost.stuck /\ ghost.progress

(* C3 *)

\* C3: for "a op1 b op2 c" with prec(op1) = prec(op2), parseExpr builds the
\* left-associative tree op2(op1(a, b), c).
C3_LeftAssoc ==
    (FirstDone /\ IsChain2 /\ OpPrec(tokens[2]) = OpPrec(tokens[4]))
        => FirstExpr = LeftTree

(* C4 *)

\* C4: for "a op1 b op2 c" with prec(op1) > prec(op2), parseExpr builds
\* op2(op1(a, b), c).
C4_HigherFirst ==
    (FirstDone /\ IsChain2 /\ OpPrec(tokens[2]) > OpPrec(tokens[4]))
        => FirstExpr = LeftTree

(* C5 *)

\* C5: for "a op1 b op2 c" with prec(op1) < prec(op2), parseExpr builds
\* op1(a, op2(b, c)).
C5_LowerFirst ==
    (FirstDone /\ IsChain2 /\ OpPrec(tokens[2]) < OpPrec(tokens[4]))
        => FirstExpr = RightTree

C5_Witness ==
    /\ FirstDone /\ IsChain2
    /\ tokens[2] = "TK_LESS_LESS" /\ tokens[4] = "TK_PLUS"
    /\ FirstExpr = RightTree
    /\ FirstExpr.k = "ShiftExpr" /\ FirstExpr.c[2].k = "AddExpr"

(* C6 *)

\* C6: a second parse() on the same parser object, with a fresh lexer over
\* the same tokens, returns what the first call returned and hands over
\* the same AST.
C6_Reuse ==
    (pc = "done" /\ calls = 2) => (ret = first.ret /\ astRoot = first.ast)

(* C7 *)

\* The input is one statement, a call whose closing parenthesis is missing.
MissingParen ==
    tokens \in {<<"TK_IDENTIFIER", "TK_LPAREN", "TK_IDENTIFIER", "TK_NEWLINE">>,
                <<"TK_IDENTIFIER", "TK_LPAREN", "TK_NEWLINE">>}

\* C7: a statement with a call whose ")" is missing reports exactly one
\* UnexpectedToken, and the Call node is in the AST with its base.
C7_OneDiagnostic ==
    (FirstDone /\ MissingParen) =>
        /\ Len(diags) = 1
        /\ diags[1].kind = "UnexpectedToken"
        /\ \E n \in Nodes(astRoot) : n.k = "CallExpr" /\ n.c[1] = Ident(1)

(* C8 *)

\* C8: in every state of the parse, the locations of the diagnostics
\* reported so far are non-decreasing in the order they were reported.
C8_MonotoneDiags ==
    \A i, j \in 1..Len(diags) : i <= j => diags[i].loc <= diags[j].loc

C8_Witness ==
    /\ Len(diags) >= 3
    /\ \E i \in 1..Len(diags) : diags[i].kind = "NameRequired"
    /\ diags[1].loc < diags[Len(diags)].loc

(* C9 *)

BlankInput == \A i \in 1..Len(tokens) : tokens[i] = "TK_NEWLINE"

\* C10: on an empty input and on an input of NEWLINE tokens only, parse()
\* returns false, hands over no AST and reports no diagnostic.
C10_BlankInput ==
    (FirstDone /\ BlankInput) =>
        ~ret /\ astRoot = Null /\ takeAsts = 0 /\ diags = <<>>

C10_Witness ==
    /\ FirstDone /\ BlankInput /\ Len(tokens) = 2
    /\ lexPos = 3 /\ ~ret

(* C11 *)

\* The input is the statement "a = b = c".
IsAssignChain ==
    tokens = <<"TK_IDENTIFIER", "TK_EQUAL", "TK_IDENTIFIER", "TK_EQUAL",
               "TK_IDENTIFIER", "TK_NEWLINE">>

\* C11: "a = b = c" is parsed right-associatively: the outer assignment
\* has a on its left and, on its right, the assignment of c to b.
C11_RightAssoc ==
    (FirstDone /\ IsAssignChain) =>
        /\ FirstExpr.k = "AssignExpr"
        /\ FirstExpr.c[1] = ListOf(<<Ident(1)>>)
        /\ \E n \in Nodes(FirstExpr.c[2]) :
              /\ n.k = "AssignExpr"
              /\ n.c[1] = ListOf(<<Ident(3)>>)
              /\ n.c[2] = ListOf(<<Ident(5)>>)

(* C12 *)

\* The input is the statement "from ..pkg import a as b, c".
IsFromDots ==
    tokens = <<"TK_FROM", "TK_DOT", "TK_DOT", "TK_IDENTIFIER", "TK_IMPORT",
               "TK_IDENTIFIER", "TK_AS", "TK_IDENTIFIER", "TK_COMMA",
               "TK_IDENTIFIER", "TK_NEWLINE">>

\* The leading dots an import clause records: the locations it holds that
\* are locations of dot tokens.
RelativeDepth(n) ==
    Cardinality({i \in DOMAIN n.loc :
                    /\ n.loc[i] \in 1..Len(tokens)
                    /\ tokens[n.loc[i]] = "TK_DOT"})

\* C12: for "from ..pkg import a as b, c" the ImportClause of the AST
\* records the two leading dots, a relative depth of 2.
C12_RelativeDepth ==
    (FirstDone /\ IsFromDots) =>
        \E n \in Nodes(astRoot) :
            n.k = "ImportClauseDecl" /\ RelativeDepth(n) = 2

-----------------------------------------------------------------------------
(* The lexer as a state machine: a buffer is bound and the cursor           *)
(* operations and the sub-lexers are called in any order.                   *)

MaxDist == 2

\* The buffers: every sequence up to MaxBuf of the characters that start
\* or end a lexeme, the numbers made of "0", a base prefix and up to
\* MaxDigits digits or other characters, and the string bodies of up to
\* MaxStr characters, closed by a quote or not.
SeqsOf(S, n) == UNION {[1..k -> S] : k \in 0..n}

FreeChars == {"0", ".", "e", "+", "x", "'", "\\", NUL}

NumBuffers ==
    {<<"0", p>> \o d :
        p \in {"x", "o", "b"},
        d \in SeqsOf({"1", "7", "8", "b", "'"}, MaxDigits)}

StrBuffers ==
    {b \o q :
        b \in SeqsOf({"\\", "\n", "HIGH"}, MaxStr), q \in {<<>>, <<"'">>}}

Buffers == SeqsOf(FreeChars, MaxBuf) \cup NumBuffers \cup StrBuffers

\* The parser while another component runs.
ParserUnused ==
    /\ tokens = <<>>
    /\ lexPos = 0
    /\ ahead_ = "TK_INVALID"
    /\ lastLoc_ = 0
    /\ diags = <<>>
    /\ astRoot = Null
    /\ takeAsts = 0
    /\ stmts = NoList
    /\ pc = "idle"
    /\ ret = FALSE
    /\ calls = 0
    /\ first = [ret |-> FALSE, ast |-> Null]
    /\ ghost = NoGhost

\* The lexer state the operations work on, from the variables.
LexCur ==
    [buff |-> buff_, curr |-> curr_, ch |-> ch, diags |-> lexDiags,
     failed |-> FALSE]

\* The record of a call made in the current state.
LexCall(op, dist, mayBreak, read, r) ==
    [op |-> op, dist |-> dist, mayBreak |-> mayBreak, curr0 |-> curr_,
     ch0 |-> ch, read |-> read, ret |-> r, failed |-> FALSE]

\* The lexer state c, left in the variables.
Lexed(c) ==
    /\ buff_' = c.buff
    /\ curr_' = c.curr
    /\ ch' = c.ch
    /\ lexDiags' = c.diags

\* setBuffer(buff, length) was called on a new lexer.
LexInit ==
    /\ buff_ \in Buffers
    /\ curr_ = 0
    /\ ch = NUL
    /\ lexDiags = <<>>
    /\ lexOp = [NoLexOp EXCEPT !.op = "setBuffer"]
    /\ ParserUnused
    /\ prim = NoPrim
    /\ FactoryUnused

\* setBuffer(buff, length) again, over the first length characters.
SetBuffer ==
    /\ \E n \in 0..Len(buff_) :
          /\ Lexed(setBuffer(LexCur, SubSeq(buff_, 1, n)))
          /\ lexOp' = LexCall("setBuffer", 0, FALSE, -1, NUL)
    /\ UNCHANGED <<parserVars, prim, facVars>>

\* peekChar(dist); a caller that peeks at the cursor keeps the character.
PeekChar ==
    /\ \E dist \in 0..MaxDist :
          /\ ch' = IF dist = 0 THEN peekChar(LexCur, 0) ELSE ch
          /\ lexOp' = LexCall("peekChar", dist, FALSE,
                              peekRead(LexCur, dist), peekChar(LexCur, dist))
    /\ UNCHANGED <<buff_, curr_, lexDiags, parserVars, prim, facVars>>

ConsumeChar ==
    /\ \E dist \in 0..MaxDist :
          /\ Lexed(consumeChar(LexCur, dist))
          /\ lexOp' = [LexCall("consumeChar", dist, FALSE, -1, NUL)
                         EXCEPT !.failed = consumeChar(LexCur, dist).failed]
    /\ UNCHANGED <<parserVars, prim, facVars>>

ConsumeCharPeekNext ==
    /\ \E dist \in 0..MaxDist :
          /\ Lexed(consumeCharPeekNext(LexCur, dist))
          /\ lexOp' = [LexCall("consumeCharPeekNext", dist, FALSE, -1,
                                consumeCharPeekNext(LexCur, dist).ch)
                         EXCEPT !.failed =
                                  consumeCharPeekNext(LexCur, dist).failed]
    /\ UNCHANGED <<parserVars, prim, facVars>>

LexStrLit ==
    /\ \E mayBreak \in BOOLEAN :
          /\ Lexed(lexStrLit(LexCur, "'", mayBreak).c)
          /\ lexOp' = [LexCall("lexStrLit", 0, mayBreak, -1,
                                lexStrLit(LexCur, "'", mayBreak).tk)
                         EXCEPT !.failed =
                                  lexStrLit(LexCur, "'", mayBreak).c.failed]
    /\ UNCHANGED <<parserVars, prim, facVars>>

LexIdentOrKeyword ==
    /\ Lexed(lexIdentOrKeyword(LexCur).c)
    /\ lexOp' = [LexCall("lexIdentOrKeyword", 0, FALSE, -1,
                          lexIdentOrKeyword(LexCur).tk)
                   EXCEPT !.failed = lexIdentOrKeyword(LexCur).c.failed]
    /\ UNCHANGED <<parserVars, prim, facVars>>

LexNumLit ==
    /\ Lexed(lexNumLit(LexCur).c)
    /\ lexOp' = [LexCall("lexNumLit", 0, FALSE, -1, lexNumLit(LexCur).tk)
                   EXCEPT !.failed = lexNumLit(LexCur).c.failed]
    /\ UNCHANGED <<parserVars, prim, facVars>>

LexNext ==
    \/ SetBuffer
    \/ PeekChar
    \/ ConsumeChar
    \/ ConsumeCharPeekNext
    \/ LexStrLit
    \/ LexIdentOrKeyword
    \/ LexNumLit

LexSpec == LexInit /\ [][LexNext]_vars

\* The last call found the caller's character in step with the cursor.
InStep == lexOp.ch0 = peekChar([LexCur EXCEPT !.curr = lexOp.curr0], 0)

\* The character of the buffer i places after the cursor of the last call.
CharAt(i) == peekChar([LexCur EXCEPT !.curr = lexOp.curr0], i)

\* The lexer reported a diagnostic of the kind.
LexReported(kind) == \E i \in 1..Len(lexDiags) : lexDiags[i].kind = kind

(* C13 *)

\* C13: lexStrLit returns STRING_LITERAL in every case; it reports
\* UnknownEscape when the character after a backslash is neither a control
\* nor a printable character, and UnterminatedString when it meets a
\* newline while mayBreak is false.
C13_StrLitReports ==
    (lexOp.op = "lexStrLit" /\ InStep) =>
        /\ lexOp.ret = "TK_STRING_LITERAL"
        /\ (/\ lexOp.ch0 = "\\"
            /\ CharAt(1) # NUL
            /\ ~iscntrl(CharAt(1)) /\ ~isprint(CharAt(1)))
                => LexReported("UnknownEscape")
        /\ (lexOp.ch0 = "\n" /\ ~lexOp.mayBreak)
                => LexReported("UnterminatedString")

(* C14 *)

\* The digits of the base a prefix character announces.
DigitsOf(c) ==
    CASE isOctalPrefix(c) -> OctDigits
      [] isHexPrefix(c) -> HexDigits
      [] OTHER -> BinDigits

\* The number of characters from place i after the cursor of the last call
\* on that are digits of the set.
RECURSIVE DigitRun(_, _)
DigitRun(i, digits) ==
    IF CharAt(i) # NUL /\ CharAt(i) \in digits
    THEN 1 + DigitRun(i + 1, digits)
    ELSE 0

\* The last call was lexNumLit on "0" and a base prefix.
OnPrefix ==
    /\ lexOp.op = "lexNumLit" /\ InStep
    /\ lexOp.ch0 = "0"
    /\ isOctalPrefix(CharAt(1)) \/ isHexPrefix(CharAt(1))
           \/ isBinPrefix(CharAt(1))

\* C14: lexNumLit on "0" and a base prefix: with no digit of the base after
\* the prefix the token is INVALID and InvalidNumericDigit is reported;
\* with one at least, all the consecutive digits of the base are consumed
\* and the token is INTEGER_LITERAL.
C14_PrefixedNumber ==
    OnPrefix =>
        IF DigitRun(2, DigitsOf(CharAt(1))) = 0
        THEN /\ lexOp.ret = "TK_INVALID"
             /\ LexReported("InvalidNumericDigit")
        ELSE /\ lexOp.ret = "TK_INTEGER_LITERAL"
             /\ curr_ = lexOp.curr0 + 2 + DigitRun(2, DigitsOf(CharAt(1)))

(* C15 *)

\* C15: after setBuffer and any sequence of cursor operations and
\* sub-lexer calls the cursor is within [buff_, eof_], and peekChar(dist)
\* returns 0 without reading the buffer when curr_ + dist >= eof_ (and
\* reads inside the buffer otherwise).
C15_CursorInBounds ==
    /\ 0 <= curr_ /\ curr_ <= Len(buff_)
    /\ lexOp.op = "peekChar" =>
          IF lexOp.curr0 + lexOp.dist >= Len(buff_)
          THEN lexOp.ret = NUL /\ lexOp.read = -1
          ELSE lexOp.read \in 0..(Len(buff_) - 1)

C15_Witness ==
    /\ lexOp.op = "peekChar" /\ lexOp.dist = 1
    /\ Len(buff_) = 3
    /\ curr_ = Len(buff_) - 1
    /\ lexOp.ret = NUL /\ lexOp.read = -1

-----------------------------------------------------------------------------
(* The factory as a state machine: its members are called in any order.    *)

MaxMade == 3

FacInit ==
    /\ FactoryUnused
    /\ ParserUnused
    /\ prim = NoPrim
    /\ LexerUnused

\* A member was called and returned r; an instance it made is one more
\* instance made.
FacCall(op, r) ==
    /\ r = NullPtr \/ Len(made) < MaxMade
    /\ made' = IF r = NullPtr THEN made ELSE Append(made, r)
    /\ facOp' = [op |-> op, ret |-> r, before |-> made]
    /\ UNCHANGED <<parserVars, prim, lexVars>>

\* makeUnit() handing out the unit it made first, once it has made one.
makeUnitShared ==
    FacCall("makeUnit",
            IF \E i \in 1..Len(made) : made[i].cls = "DUnit"
            THEN made[CHOOSE i \in 1..Len(made) : made[i].cls = "DUnit"]
            ELSE New(made, "DUnit"))

makeUnit == FacCall("makeUnit", New(made, "DUnit"))

makeBuiltin == FacCall("makeBuiltin", New(made, "Builtin"))

langName ==
    /\ facOp' = [op |-> "langName", ret |-> "LangId::D", before |-> made]
    /\ UNCHANGED <<made, parserVars, prim, lexVars>>

makeAstLocator == FacCall("makeAstLocator", New(made, "DAstLocator"))

makeIncrementalLexer ==
    FacCall("makeIncrementalLexer", New(made, "DIncrementalLexer"))

makeSanitizer == FacCall("makeSanitizer", New(made, "DSanitizer"))

makeTypeSystem == FacCall("makeTypeSystem", New(made, "DTypeSystem"))

makeLang == FacCall("makeLang", New(made, "DLang"))

makeLexer == FacCall("makeLexer", NullPtr)

makeParser == FacCall("makeParser", NullPtr)

FacNext ==
    \/ makeUnit
    \/ makeBuiltin
    \/ langName
    \/ makeAstLocator
    \/ makeIncrementalLexer
    \/ makeSanitizer
    \/ makeTypeSystem
    \/ makeLang
    \/ makeLexer
    \/ makeParser

FactorySpec == FacInit /\ [][FacNext]_vars

(* C16 *)

\* The class of the instance each making member returns.
ClassOf(op) ==
    CASE op = "makeUnit" -> "DUnit"
      [] op = "makeBuiltin" -> "Builtin"
      [] op = "makeAstLocator" -> "DAstLocator"
      [] op = "makeIncrementalLexer" -> "DIncrementalLexer"
      [] op = "makeSanitizer" -> "DSanitizer"
      [] op = "makeTypeSystem" -> "DTypeSystem"
      [] OTHER -> "DLang"

Makers ==
    {"makeUnit", "makeBuiltin", "makeAstLocator", "makeIncrementalLexer",
     "makeSanitizer", "makeTypeSystem", "makeLang"}

\* C16: after any sequence of calls, langName() returns LangId::D,
\* makeLexer() and makeParser() return null, and each of the seven other
\* members returns a non-null instance of its class that no earlier call
\* returned.
C16_Stateless ==
    /\ facOp.op = "langName" => facOp.ret = "LangId::D"
    /\ facOp.op \in {"makeLexer", "makeParser"} =>
          facOp.ret = NullPtr /\ made = facOp.before
    /\ facOp.op \in Makers =>
          /\ facOp.ret # NullPtr
          /\ facOp.ret.cls = ClassOf(facOp.op)
          /\ \A i \in 1..Len(facOp.before) : facOp.before[i] # facOp.ret
          /\ made = Append(facOp.before, facOp.ret)

C16_Witness ==
    /\ facOp.op = "makeUnit"
    /\ Len(facOp.before) = 2
    /\ facOp.before[1].cls = "DUnit"
    /\ facOp.ret.cls = "DUnit" /\ facOp.ret.id = 3

-----------------------------------------------------------------------------
(* The token primitives as a state machine: consumeToken, maybeConsume,    *)
(* match, skipTo and failMatch are called on the parser in any order, over *)
(* a lexer that delivers the tokens.                                       *)

MaxToks == 3

MaxDiags == 2

PrimTokens == {"TK_IDENTIFIER", "TK_COMMA", "TK_RPAREN", "TK_NEWLINE"}

PrimInputs == UNION {[1..n -> PrimTokens] : n \in 0..MaxToks}

\* The tokens a primitive is called with.
PrimArgs == PrimTokens \cup {"TK_EOP"}

PrimInit ==
    /\ tokens \in PrimInputs
    /\ lexPos = 0
    /\ ahead_ = "TK_INVALID"
    /\ lastLoc_ = 0
    /\ diags = <<>>
    /\ astRoot = Null
    /\ takeAsts = 0
    /\ stmts = NoList
    /\ pc = "idle"
    /\ ret = FALSE
    /\ calls = 0
    /\ first = [ret |-> FALSE, ast |-> Null]
    /\ ghost = NoGhost
    /\ prim = NoPrim
    /\ LexerUnused
    /\ FactoryUnused

\* The record of a call made in the current state.
PrimCall(op, tk, consume, b) ==
    [op |-> op, tk |-> tk, consume |-> consume, b |-> b,
     before |-> [pos |-> lexPos, ahead |-> ahead_, last |-> lastLoc_,
                 diags |-> diags]]

\* The parser state p, left in the variables.
Primmed(p) ==
    /\ lexPos' = p.pos
    /\ ahead_' = p.ahead
    /\ lastLoc_' = p.last
    /\ diags' = p.diags
    /\ ghost' = p.g
    /\ UNCHANGED <<tokens, astRoot, takeAsts, stmts, pc, ret, calls, first,
                   lexVars, facVars>>

ConsumeToken ==
    /\ Primmed(consumeToken(Cur))
    /\ prim' = PrimCall("consumeToken", "TK_INVALID", FALSE, FALSE)

MaybeConsume ==
    \E tk \in PrimArgs :
        /\ Primmed(maybeConsume(Cur, tk).p)
        /\ prim' = PrimCall("maybeConsume", tk, FALSE, maybeConsume(Cur, tk).b)

Match ==
    \E tk \in PrimArgs :
        /\ Len(diags) < MaxDiags
        /\ Primmed(match(Cur, tk).p)
        /\ prim' = PrimCall("match", tk, FALSE, match(Cur, tk).b)

SkipTo ==
    \E tk \in PrimArgs :
        /\ Primmed(skipTo(Cur, tk))
        /\ prim' = PrimCall("skipTo", tk, FALSE, FALSE)

FailMatch ==
    \E consume \in BOOLEAN :
        /\ Len(diags) < MaxDiags
        /\ Primmed(failMatch(Cur, consume))
        /\ prim' = PrimCall("failMatch", "TK_INVALID", consume, FALSE)

PrimNext == ConsumeToken \/ MaybeConsume \/ Match \/ SkipTo \/ FailMatch

PrimSpec == PrimInit /\ [][PrimNext]_vars

\* The last call was a call of the primitive.
Called(op) == prim.op = op

(* C17 *)

\* C17: once ahead_ is EOP, a call of consumeToken, maybeConsume, match,
\* skipTo or failMatch leaves ahead_ and lastLoc_ as they were and makes no
\* call of lex(); before EOP, consumeToken makes exactly one call of lex(),
\* whose token becomes ahead_, and sets lastLoc_ to the location of the
\* token that was ahead.
C17_EopIsFinal ==
    /\ (prim.op # "none" /\ prim.before.ahead = "TK_EOP") =>
          /\ ahead_ = "TK_EOP"
          /\ lastLoc_ = prim.before.last
          /\ lexPos = prim.before.pos
    /\ (Called("consumeToken") /\ prim.before.ahead # "TK_EOP") =>
          /\ lexPos = prim.before.pos + 1
          /\ lastLoc_ = prim.before.pos
          /\ ahead_ = IF lexPos <= Len(tokens) THEN tokens[lexPos]
                      ELSE "TK_EOP"

C17_Witness ==
    /\ Called("match") /\ prim.tk = "TK_RPAREN"
    /\ prim.before.ahead = "TK_EOP"
    /\ Len(tokens) = 2 /\ lexPos = 3 /\ lastLoc_ = 2
    /\ Len(diags) = 1

(* C18 *)

\* C18: match(t) moves on by exactly one token whether the token matches
\* or not (by none when ahead_ is EOP), returns true iff the token that
\* was ahead is t, and appends exactly one UnexpectedToken at lastLoc_
\* when it returns false, nothing when it returns true.
C18_MatchMovesOn ==
    Called("match") =>
        /\ lexPos = IF prim.before.ahead = "TK_EOP" THEN prim.before.pos
                    ELSE prim.before.pos + 1
        /\ prim.b = (prim.before.ahead = prim.tk)
        /\ diags = IF prim.b THEN prim.before.diags
                   ELSE Append(prim.before.diags,
                               [kind |-> "UnexpectedToken", loc |-> lastLoc_])

C18_Witness ==
    /\ Called("match") /\ ~prim.b
    /\ prim.before.ahead = "TK_COMMA" /\ prim.tk = "TK_RPAREN"
    /\ lexPos = prim.before.pos + 1
    /\ Len(diags) = 1 /\ diags[1].loc = 2

(* C19 *)

\* C19: skipTo(t) ends with t or EOP ahead, consumes only tokens that are
\* neither t nor EOP, consumes nothing when t or EOP is ahead already, and
\* appends no diagnostic.
C19_SkipToStops ==
    Called("skipTo") =>
        /\ ahead_ \in {prim.tk, "TK_EOP"}
        /\ diags = prim.before.diags
        /\ lexPos >= prim.before.pos
        /\ prim.before.ahead \in {prim.tk, "TK_EOP"} =>
              lexPos = prim.before.pos
        /\ \A i \in (prim.before.pos + 1)..(lexPos - 1) :
              tokens[i] # prim.tk

C19_Witness ==
    /\ Called("skipTo") /\ prim.tk = "TK_RPAREN"
    /\ prim.before.pos = 1 /\ lexPos = 3
    /\ ahead_ = "TK_RPAREN"
    /\ tokens[1] = "TK_IDENTIFIER" /\ tokens[2] = "TK_COMMA"

-----------------------------------------------------------------------------
(* C20 *)

\* The statements "a += b = c", "a = b += c" and "a *= yield b".
AugThenEq ==
    <<"TK_IDENTIFIER", "TK_PLUS_EQUAL", "TK_IDENTIFIER", "TK_EQUAL",
      "TK_IDENTIFIER", "TK_NEWLINE">>

EqThenAug ==
    <<"TK_IDENTIFIER", "TK_EQUAL", "TK_IDENTIFIER", "TK_PLUS_EQUAL",
      "TK_IDENTIFIER", "TK_NEWLINE">>

AugYield ==
    <<"TK_IDENTIFIER", "TK_STAR_EQUAL", "TK_YIELD", "TK_IDENTIFIER",
      "TK_NEWLINE">>

\* parse() is about to parse the first statement of the input.
AtFirstStmt == pc = "loop" /\ calls = 1 /\ lexPos = 1

\* The statement of the one assignment of rhs to the first token, its
\* operator the second token.
OneAssign(rhs) ==
    N("ExprStmt", <<>>,
      <<ListOf(<<N("AssignExpr", <<2>>, <<ListOf(<<Ident(1)>>), rhs>>)>>)>>)

\* The assignments of a tree.
Assigns(n) == {a \in Nodes(n) : a.k = "AssignExpr"}

\* C20: parseExprStmt on "a += b = c" and on "a = b += c" makes one Assign
\* of b to a and returns with the second operator ahead, not consumed; on
\* "a *= yield b" it makes one Assign whose right side is the yield
\* expression; the AST parse() hands over holds that one Assign.
C20_AugAssignStops ==
    /\ (AtFirstStmt /\ tokens \in {AugThenEq, EqThenAug}) =>
          /\ invoke("parseExprStmt", Cur).a = OneAssign(ListOf(<<Ident(3)>>))
          /\ invoke("parseExprStmt", Cur).p.pos = 4
          /\ invoke("parseExprStmt", Cur).p.ahead = tokens[4]
    /\ (AtFirstStmt /\ tokens = AugYield) =>
          /\ invoke("parseExprStmt", Cur).a =
                OneAssign(ListOf(<<N("YieldExpr", <<3>>,
                                     <<ListOf(<<Ident(4)>>)>>)>>))
          /\ invoke("parseExprStmt", Cur).p.ahead = "TK_NEWLINE"
    /\ (FirstDone /\ tokens \in {AugThenEq, EqThenAug, AugYield}) =>
          Cardinality(Assigns(astRoot)) = 1

C20_Witness ==
    /\ FirstDone /\ tokens = EqThenAug
    /\ Cardinality(Assigns(astRoot)) = 1
    /\ \E a \in Assigns(astRoot) : a.loc = <<2>>
    /\ Len(diags) = 1 /\ diags[1].loc = 4

-----------------------------------------------------------------------------
(* C21 *)

\* parse() is about to parse a try statement.
AtTry == pc = "loop" /\ ahead_ = "TK_TRY"

\* What parseTryStmt does from there.
TryRun == invoke("parseTryStmt", Cur)

\* The tokens parseTryStmt consumes, by their place in the stream.
TryToks == lexPos..(TryRun.p.pos - 1)

\* The clause keywords among them: in the statements of the inputs each suite
\* is on the line of its colon, so that a clause keyword is what follows the
\* NEWLINE of a suite.
Clauses(tk) ==
    {i \in TryToks : i > 1 /\ tokens[i] = tk /\ tokens[i - 1] = "TK_NEWLINE"}

\* The else at i comes after an except clause.
AfterExcept(i) == \E j \in Clauses("TK_CATCH") : j < i

\* The else at i is the first one that comes after an except clause.
AcceptedElse(i) ==
    /\ AfterExcept(i)
    /\ ~\E j \in Clauses("TK_ELSE") : j < i /\ AfterExcept(j)

\* The number of reports of the kind parseTryStmt makes at the token i.
TryReports(kind, i) ==
    Cardinality({j \in (Len(diags) + 1)..Len(TryRun.p.diags) :
                   TryRun.p.diags[j] = [kind |-> kind, loc |-> i]})

\* C21: in a try statement the first else that follows an except clause is
\* taken with its suite and, its colon there, without a report; any other else is consumed with
\* one UnexpectedToken at it and parseTryStmt returns before its suite (an
\* else that ends the input with no except before it also carries the report
\* of the missing except, made at the last consumed token); after
\* the suite of a finally clause parseTryStmt returns, no except, else or
\* finally consumed after it, and the Try node has a finally clause exactly
\* when one was consumed.
C21_TryClauses ==
    AtTry =>
      /\ \A i \in Clauses("TK_ELSE") :
            IF AcceptedElse(i)
            THEN /\ lex(i) = "TK_COLON" =>
                        TryReports("UnexpectedToken", i) = 0
                 /\ (lex(i) = "TK_COLON" /\ lex(i + 1) = "TK_PASS") =>
                        TryRun.p.pos > i + 2
            ELSE /\ TryReports("UnexpectedToken", i) >= 1
                 /\ (AfterExcept(i) \/ lex(i) # "TK_EOP") =>
                        TryReports("UnexpectedToken", i) = 1
                 /\ TryRun.p.pos <= i + 2
      /\ \A i \in Clauses("TK_FINALLY") :
            /\ \A j \in TryToks :
                  j > i => tokens[j] \notin {"TK_CATCH", "TK_ELSE", "TK_FINALLY"}
            /\ TryRun.a.c[3].k = "FinallyClauseStmt"
            /\ TryRun.a.c[3].loc = <<i>>
      /\ (Clauses("TK_FINALLY") = {}) => TryRun.a.c[3] = Null

\* A try statement was parsed whose second else was refused: the one report
\* is at that else, its colon is ahead, and an else before it was taken.
C21_Witness ==
    /\ pc = "loop" /\ stmts # NoList
    /\ stmts.c[Len(stmts.c)].k = "TryStmt"
    /\ Len(stmts.c[Len(stmts.c)].c[2].c) = 1
    /\ lastLoc_ >= 1 /\ tokens[lastLoc_] = "TK_ELSE"
    /\ ahead_ = "TK_COLON"
    /\ diags = <<[kind |-> "UnexpectedToken", loc |-> lastLoc_]>>
    /\ \E i \in 1..(lastLoc_ - 1) : tokens[i] = "TK_ELSE"

-----------------------------------------------------------------------------
(* C22 *)

\* parse() is about to parse a from-import whose tokens after "from" are
\* those of toks.
AtFrom(toks) ==
    /\ pc = "loop" /\ ahead_ = "TK_FROM"
    /\ lexPos + Len(toks) <= Len(tokens)
    /\ \A i \in 1..Len(toks) : tokens[lexPos + i] = toks[i]

\* What parseImportStmt does from there, and the reports it adds.
ImportRun == invoke("parseImportStmt", Cur)

ImportReports ==
    SubSeq(ImportRun.p.diags, Len(diags) + 1, Len(ImportRun.p.diags))

\* The modules of the import clause, and the members of its one module.
ImportModules == ImportRun.a.c[1].c[1]

ImportMembers == ImportModules.c[1].c[3]

\* The first closing parenthesis from the token i on, the end of the tokens
\* if there is none.
RECURSIVE NextRParen(_)
NextRParen(i) ==
    IF i > Len(tokens) \/ tokens[i] = "TK_RPAREN" THEN i ELSE NextRParen(i + 1)

-----------------------------------------------------------------------------
(* C23 *)

\* The except clauses "except E as X :" and "except E , X :" of the try
\* statement, by the place of their keyword.
Captures ==
    {i \in Clauses("TK_CATCH") :
        /\ lex(i) = "TK_IDENTIFIER"
        /\ lex(i + 1) \in {"TK_AS", "TK_COMMA"}
        /\ lex(i + 2) \in {"TK_IDENTIFIER", "TK_INTEGER_LITERAL"}
        /\ lex(i + 3) \in {"TK_COLON", "TK_EOP"}}

\* The catch clause of the Try node whose keyword is at i.
CatchAt(i) ==
    LET catchs == TryRun.a.c[2].c
    IN  catchs[CHOOSE n \in 1..Len(catchs) : catchs[n].loc = <<i>>]

\* C23: for an except clause "except E as X" or "except E, X" of a try
\* statement, when X is an identifier the clause's parameter group has one
\* parameter, of that name, and no NameRequired is reported at X; when X is
\* another expression the group has no parameter and one NameRequired is
\* reported at X; and there are no other NameRequired reports.
C23_NameRequired ==
    AtTry =>
      /\ \A i \in Captures :
            /\ CatchAt(i).c[1].k = "ParamGroupDecl"
            /\ IF tokens[i + 3] = "TK_IDENTIFIER"
               THEN /\ CatchAt(i).c[1].c[2] =
                          ListOf(<<N("ParamDecl", <<>>,
                                     <<N("SimpleName", <<i + 3>>, <<>>)>>)>>)
                    /\ TryReports("NameRequired", i + 3) = 0
               ELSE /\ CatchAt(i).c[1].c[2] = NoList
                    /\ TryReports("NameRequired", i + 3) = 1
      /\ Cardinality({j \in (Len(diags) + 1)..Len(TryRun.p.diags) :
                        TryRun.p.diags[j].kind = "NameRequired"})
           = Cardinality({i \in Captures : tokens[i + 3] # "TK_IDENTIFIER"})

\* A try statement with three except clauses was parsed, the first two with
\* a name bound and the third with a literal in the place of the name: the
\* one report is the NameRequired at the literal.
C23_Witness ==
    /\ pc = "loop" /\ stmts # NoList
    /\ stmts.c[Len(stmts.c)].k = "TryStmt"
    /\ Len(stmts.c[Len(stmts.c)].c[2].c) = 3
    /\ \A n \in 1..3 :
          stmts.c[Len(stmts.c)].c[2].c[n].c[1].k = "ParamGroupDecl"
    /\ Len(stmts.c[Len(stmts.c)].c[2].c[1].c[1].c[2].c) = 1
    /\ Len(stmts.c[Len(stmts.c)].c[2].c[2].c[1].c[2].c) = 1
    /\ stmts.c[Len(stmts.c)].c[2].c[3].c[1].c[2] = NoList
    /\ Len(diags) = 1 /\ diags[1].kind = "NameRequired"
    /\ tokens[diags[1].loc] = "TK_INTEGER_LITERAL"

-----------------------------------------------------------------------------
(* C24 *)

\* The statement "a[b, c]".
SubscriptPair ==
    <<"TK_IDENTIFIER", "TK_LBRACKET", "TK_IDENTIFIER", "TK_COMMA",
      "TK_IDENTIFIER", "TK_RBRACKET", "TK_NEWLINE">>

\* C24: on "a[b, c]" parsePower consumes both subscripts and the closing
\* bracket and reports nothing, and the whole parse reports nothing.
C24_SubscriptList ==
    /\ (AtFirstStmt /\ tokens = SubscriptPair) =>
          /\ invoke("parsePower", Cur).p.diags = <<>>
          /\ invoke("parsePower", Cur).p.ahead = "TK_NEWLINE"
          /\ invoke("parsePower", Cur).p.pos = 7
    /\ (FirstDone /\ tokens = SubscriptPair) => diags = <<>>

-----------------------------------------------------------------------------
(* C25 *)

\* The statement "open a for b in c, d close".
CompreStmt(open, close) ==
    <<open, "TK_IDENTIFIER", "TK_FOR", "TK_IDENTIFIER", "TK_IN",
      "TK_IDENTIFIER", "TK_COMMA", "TK_IDENTIFIER", close, "TK_NEWLINE">>

\* The comprehension over the first test after the opening delimiter, its
\* generators parsed by genFunc, up to the closing delimiter: the parser
\* state it ends in and the generators it makes.
CompreBy(genFunc, close) ==
    LET test == invoke("parseTest", consumeToken(Cur))
        lc == invoke(genFunc, <<test.p, NewListCompre>>)
    IN  R(matchOrSkipTo(lc.p, close), lc.a.c[2])

\* The generators of the comprehension in the expression e.
GensOf(e) == IF e.k = "WrappedExpr" THEN e.c[1].c[2] ELSE e.c[2]

\* C25: the comprehension "a for b in c, d" is parsed in the old form within
\* brackets, the comma and d taken into the iterable, and in the new form
\* within parentheses and within braces, the iterable ending before the
\* comma.
C25_CompreForms ==
    /\ (AtFirstStmt /\ tokens = CompreStmt("TK_LBRACKET", "TK_RBRACKET")) =>
          /\ invoke("parseAtom", Cur).p = CompreBy("parseListFor", "TK_RBRACKET").p
          /\ invoke("parseAtom", Cur).p.pos = 10
    /\ (AtFirstStmt /\ tokens = CompreStmt("TK_LPAREN", "TK_RPAREN")) =>
          /\ invoke("parseAtom", Cur).p = CompreBy("parseCompFor", "TK_RPAREN").p
          /\ GensOf(invoke("parseAtom", Cur).a)
               = CompreBy("parseCompFor", "TK_RPAREN").a
    /\ (AtFirstStmt /\ tokens = CompreStmt("TK_LBRACE", "TK_RBRACE")) =>
          /\ invoke("parseAtom", Cur).p = CompreBy("parseCompFor", "TK_RBRACE").p
          /\ GensOf(invoke("parseAtom", Cur).a)
               = CompreBy("parseCompFor", "TK_RBRACE").a

-----------------------------------------------------------------------------
(* C26 *)

\* The parameter clauses of the statements parsed so far.
ParamClauses == {n \in Nodes(stmts) : n.k = "ParamClauseDecl"}

\* The parameters of a clause, one of each group, in their order.
Params(cl) == [i \in 1..Len(cl.c[1].c) |-> cl.c[1].c[i].c[2].c[1]]

\* The parameter is "* name", or "** name": the location of a variadic
\* parameter is that of its star.
IsStar(prm) == prm.k = "ParamDeclVariadic" /\ tokens[prm.loc[1]] = "TK_STAR"

IsStarStar(prm) ==
    prm.k = "ParamDeclVariadic" /\ tokens[prm.loc[1]] = "TK_STAR_STAR"

\* The token k is a name or a star met right after "( * name ," or
\* "lambda * name ,".
AfterStarName(k) ==
    /\ k >= 5 /\ k <= Len(tokens)
    /\ tokens[k - 4] \in {"TK_LPAREN", "TK_LAMBDA"}
    /\ tokens[k - 3] = "TK_STAR"
    /\ tokens[k - 2] = "TK_IDENTIFIER"
    /\ tokens[k - 1] = "TK_COMMA"
    /\ tokens[k] \in {"TK_IDENTIFIER", "TK_STAR"}

\* The token k is the name or the star of a parameter of the clause.
ParamAt(cl, k) ==
    \E i \in 1..Len(cl.c[1].c) :
        \/ Params(cl)[i].loc = <<k>>
        \/ /\ Params(cl)[i].c # <<>>
           /\ Params(cl)[i].c[1].loc = <<k>>

\* C26: a parameter clause has at most one "* name" and at most one
\* "** name", "** name" is its last parameter, and only variadic parameters
\* follow "* name"; a name or a star met after "* name ," is no parameter of
\* any clause, and once it is consumed an UnexpectedToken is reported at it.
C26_VarArgs ==
    /\ \A cl \in ParamClauses :
          LET ps == Params(cl)
          IN  /\ Cardinality({i \in 1..Len(ps) : IsStar(ps[i])}) <= 1
              /\ Cardinality({i \in 1..Len(ps) : IsStarStar(ps[i])}) <= 1
              /\ \A i \in 1..Len(ps) : IsStarStar(ps[i]) => i = Len(ps)
              /\ \A i, j \in 1..Len(ps) :
                    (i < j /\ IsStar(ps[i])) => ps[j].k = "ParamDeclVariadic"
    /\ \A k \in 1..(lexPos - 1) :
          AfterStarName(k) =>
             /\ \E n \in 1..Len(diags) :
                   diags[n] = [kind |-> "UnexpectedToken", loc |-> k]
             /\ \A cl \in ParamClauses : ~ParamAt(cl, k)

\* A function definition "def f ( * a , b ) ..." was parsed: its clause has
\* the one parameter "* a", and the first report is at b.
C26_Witness ==
    /\ pc = "loop"
    /\ \E k \in 1..(lexPos - 1) :
          /\ AfterStarName(k) /\ tokens[k] = "TK_IDENTIFIER"
          /\ tokens[k - 4] = "TK_LPAREN"
          /\ diags # <<>>
          /\ diags[1] = [kind |-> "UnexpectedToken", loc |-> k]
          /\ \E cl \in ParamClauses :
                /\ Len(Params(cl)) = 1
                /\ IsStar(Params(cl)[1])
                /\ Params(cl)[1].loc = <<k - 3>>

-----------------------------------------------------------------------------
(* C27 *)

\* The statement "class C ( ) : pass".
ClassNoBases ==
    <<"TK_CLASS", "TK_IDENTIFIER", "TK_LPAREN", "TK_RPAREN", "TK_COLON",
      "TK_PASS", "TK_NEWLINE">>

\* C27: on "class C ( ) : pass" parseClassDef reports nothing, dereferences
\* no null list and consumes the whole statement, and parse() ends with no
\* report.
C27_EmptyBases ==
    /\ (AtFirstStmt /\ tokens = ClassNoBases) =>
          /\ invoke("parseClassDef", Cur).p.diags = <<>>
          /\ ~invoke("parseClassDef", Cur).p.g.ub
          /\ invoke("parseClassDef", Cur).p.ahead = "TK_EOP"
    /\ (FirstDone /\ tokens = ClassNoBases) => diags = <<>>

(***************************************************************************)
(* C28.  Every sub-lexer satisfies the precondition of consumeChar(): it    *)
(* consumes a character only where the character to consume is not 0, a    *)
(* backslash at the very end of the buffer inside a string literal          *)
(* included.  The sub-lexer is entered with the caller's character in step *)
(* with the cursor; no assertion of consumeChar() fails during the call.   *)
(***************************************************************************)
SubLexers == {"lexStrLit", "lexIdentOrKeyword", "lexNumLit"}

C28_ConsumePrecondition ==
    (lexOp.op \in SubLexers /\ InStep) => ~lexOp.failed

-----------------------------------------------------------------------------
(* C29 *)

\* The parser after the suite of the try statement parse() is about to
\* parse: what the clause loop of parseTryStmt starts from.
TrySuite ==
    invoke("parseSuite", match(match(Cur, "TK_TRY").p, "TK_COLON").p).p

\* The reports the clause loop makes, and the tokens it consumes.
LoopReports ==
    SubSeq(TryRun.p.diags, Len(TrySuite.diags) + 1, Len(TryRun.p.diags))

LoopConsumed == TryRun.p.pos - TrySuite.pos

\* The parser after a finally clause taken right after the try suite.
FinallyOnly ==
    invoke("parseSuite", match(consumeToken(TrySuite), "TK_COLON").p).p

\* One report of an unexpected token and one token consumed, none at the
\* end of the program.
OneUnexpected(ahead) ==
    /\ Len(LoopReports) = 1
    /\ LoopReports[1].kind = "UnexpectedToken"
    /\ LoopConsumed = IF ahead = "TK_EOP" THEN 0 ELSE 1

\* The try statement as such got a Try node without clauses.
BareTry ==
    /\ TryRun.a.k = "TryStmt"
    /\ TryRun.a.c[2] = NoList /\ TryRun.a.c[3] = Null

\* A finally right after the try suite: nothing is reported for the missing
\* except, the reports are those of the finally clause itself.
FinallyQuiet ==
    TrySuite.ahead = "TK_FINALLY" =>
        /\ TryRun.p.diags = FinallyOnly.diags
        /\ TryRun.p.pos = FinallyOnly.pos
        /\ TryRun.a.c[2] = NoList

\* C29 as stated: a try suite followed by neither except nor finally gets
\* exactly one UnexpectedToken and exactly one token consumed beyond the
\* suite (none at the end of the program) before the Try node is returned;
\* a try suite followed by finally gets no report for the missing except.
C29_MissingExcept ==
    AtTry =>
      /\ TrySuite.ahead \notin {"TK_CATCH", "TK_FINALLY"} =>
            OneUnexpected(TrySuite.ahead) /\ BareTry
      /\ FinallyQuiet

\* C29, amended: that holds when the token after the try suite is no clause
\* keyword at all.  An else there is consumed with an UnexpectedToken at it
\* by the else case, and the loop goes on: the token after the else, unless
\* it is a clause keyword in its turn, is consumed with the UnexpectedToken
\* of the missing except, which makes two reports and two tokens (one token
\* when the else ends the program).  A finally right after the try suite
\* gets no report for the missing except.
C29_MissingExceptNoElse ==
    AtTry =>
      /\ TrySuite.ahead \notin {"TK_CATCH", "TK_FINALLY", "TK_ELSE"} =>
            OneUnexpected(TrySuite.ahead) /\ BareTry
      /\ TrySuite.ahead = "TK_ELSE" =>
            /\ Len(LoopReports) >= 1
            /\ LoopReports[1] =
                  [kind |-> "UnexpectedToken", loc |-> TrySuite.pos]
            /\ lex(TrySuite.pos) \notin {"TK_CATCH", "TK_FINALLY", "TK_ELSE"} =>
                  /\ Len(LoopReports) = 2
                  /\ LoopReports[2].kind = "UnexpectedToken"
                  /\ LoopConsumed =
                        IF lex(TrySuite.pos) = "TK_EOP" THEN 1 ELSE 2
                  /\ BareTry
      /\ FinallyQuiet

\* A try statement without clauses was parsed whose suite was followed by an
\* identifier: the identifier is consumed, the one report is at it, and the
\* NEWLINE after it is ahead.
C29_Witness ==
    /\ pc = "loop" /\ stmts # NoList
    /\ stmts.c[Len(stmts.c)].k = "TryStmt"
    /\ stmts.c[Len(stmts.c)].c[2] = NoList
    /\ stmts.c[Len(stmts.c)].c[3] = Null
    /\ lastLoc_ >= 2 /\ tokens[lastLoc_] = "TK_IDENTIFIER"
    /\ tokens[lastLoc_ - 1] = "TK_NEWLINE"
    /\ ahead_ = "TK_NEWLINE"
    /\ diags = <<[kind |-> "UnexpectedToken", loc |-> lastLoc_]>>

-----------------------------------------------------------------------------
(* C30 *)

\* The parenthesized expressions of the Program.
Wrappeds == {n \in Nodes(astRoot) : n.k = "WrappedExpr"}

\* C30: the delimiter locations of a node are those of the delimiter tokens:
\* the left-delimiter location of every Wrapped node is the location of a
\* "(" and, in a parse without a report (the ")" was there), its
\* right-delimiter location is the location of a ")".
C30_DelimLocs ==
    \A n \in Wrappeds :
        /\ tokens[n.loc[1]] = "TK_LPAREN"
        /\ diags = <<>> => tokens[n.loc[2]] = "TK_RPAREN"

====
